---- MODULE Spec2Model ----
(***************************************************************************)
(* Model of the concurrent scanning engine of ricktrader-web:              *)
(*   - AutoScanner (app/services/scanner/auto_scanner.py): the scan loop,  *)
(*     deduplication, the bounded signal history and its two indices;      *)
(*   - the fan-out of one scan cycle in AutoScanner and IQOptionScanner    *)
(*     (app/services/scanner/iqoption_scanner.py);                         *)
(*   - IQOptionSessionManager (app/services/iqoption/session_manager.py)   *)
(*     and the IQOptionClient it owns                                     *)
(*     (app/services/scanner/iqoption_client.py).                          *)
(* Every coroutine is cut at its awaits: one action is the code that runs  *)
(* between two suspension points of the asyncio event loop.                *)
(*                                                                         *)
(* Several specifications share the module (SpecHistory, SpecGate,         *)
(* SpecSession and those derived from them). Each leaves the variables of  *)
(* the others unchanged.                                                   *)
(***************************************************************************)
EXTENDS Integers, Sequences, FiniteSets, TLC

VARIABLES
    \* ---- AutoScanner object (auto_scanner.py:32-38)
    is_running,        \* self.is_running
    latest_signals,    \* self.latest_signals : symbol -> signal
    signal_history,    \* self.signal_history : list of signals
    signal_index,      \* self.signal_index   : signal_id -> signal
    \* ---- the start_scanning coroutine of that object
    scanPc,            \* where the loop is suspended
    pairs,             \* the list returned by _get_pairs_to_scan (symbols)
    taskState,         \* per _scan_pair task: "fetching" | "done"
    results,           \* per task: the value gather will return for it
    new_signals,       \* signals of this cycle not yet handled by the for loop
    wakeAt,            \* deadline of the pending asyncio.sleep
    sensitivity,       \* self.config.sensitivity
    \* ---- environment of the scanner
    now,               \* datetime.now(), in seconds
    nextId,            \* uuid4 source: the next unused signal_id
    \* ---- history variables (not program state)
    prefilled,         \* number of signals accepted before the model starts
    accepted,          \* the signals appended to signal_history since, in order,
                       \* as long as clear_old_signals has not been called
    cleared,           \* clear_old_signals has been called
    lastCheck,         \* the last duplicate check of the running gather
    \* ---- one scan loop seen as a fan-out of fetches (SpecGate)
    gKind,             \* the class of the scanner: "auto" | "iq"
    gPc,               \* where start_scanning is suspended
    gPairs,            \* number of pairs of the cycle
    gIdx,              \* IQOptionScanner: position of the for loop (line 87)
    gTask,             \* per pair: "idle" | "inflight" | "done" | "cancelled"
    gStart,            \* per pair: when its fetch was started
    gHung,             \* the pair whose fetch never returns (0: none)
    gSem,              \* IQOptionScanner._semaphore: free slots
    gWakeAt,           \* deadline of the pending asyncio.sleep
    gNow,              \* the clock, in seconds
    \* ---- IQOptionSessionManager object (session_manager.py:16-21)
    clients,           \* every IQOptionClient constructed so far, by identity
    sessions,          \* self.sessions         : username -> client
    session_timeouts,  \* self.session_timeouts : username -> last activity
    account_types,     \* self.account_types    : username -> account type
    \* ---- the coroutines that run on the manager
    calls,             \* the calls of the manager's coroutines in progress
    reaper,            \* the _cleanup_sessions task
    sNow,              \* the clock, in minutes
    \* ---- history variables (not program state)
    ret,               \* the call that returned in the step just taken, with its
                       \* arguments and its result (op "none": no call returned)
    \* ---- one call of a function that only computes
    fnIn,              \* the function called and its arguments
    fnOut,             \* the value it returned, once it has returned
    \* ---- the scanners of one user and the requests that start and stop them
    lKind,             \* the routes in use: "auto" (routes.py) | "iq" (iqoption_routes.py)
    scanners,          \* every scanner constructed so far, by identity, with
                       \* its task: is_running, where the task is suspended
                       \* (pc), and whether its cancellation was requested
    scanner_instances, \* _scanner_instances / _user_scanners of the user (0: none)
    scanner_tasks,     \* _scanner_tasks of the user (0: none)
    starts,            \* the start_scanner calls in progress
    session,           \* the user's session: "none" | "down" | "up"
    resp,              \* history: the request handled in the step just taken
                       \* and its HTTP status (0: the handler is suspended);
                       \* op "empty": a scanner resolved an empty instrument list
    tick               \* what the current reaper tick found and what became of it:
                       \* sessions: the (username, client) pairs registered and
                       \* idle when the tick began; torn: those of their clients
                       \* on which IQOptionClient.disconnect has completed since;
                       \* failed: the position of the first disconnect of the
                       \* tick that failed (0: none); done: the for loop is over;
                       \* fresh: the users whose disconnect the tick issued
                       \* while their last activity was within the timeout

histVars == <<is_running, latest_signals, signal_history, signal_index, scanPc,
              pairs, taskState, results, new_signals, wakeAt, sensitivity,
              now, nextId,
              prefilled, accepted, cleared, lastCheck>>

gateVars == <<gKind, gPc, gPairs, gIdx, gTask, gStart, gHung, gSem, gWakeAt, gNow>>

sessVars == <<clients, sessions, session_timeouts, account_types, calls, reaper,
              sNow, tick, ret>>

lifeVars == <<lKind, scanners, scanner_instances, scanner_tasks, starts, session, resp>>

vars == <<histVars, gateVars, sessVars, fnIn, fnOut, lifeVars>>

\* what the actions of one specification leave alone
notHist == <<gateVars, sessVars, fnIn, fnOut, lifeVars>>
notGate == <<histVars, sessVars, fnIn, fnOut, lifeVars>>
notSess == <<histVars, gateVars, fnIn, fnOut, lifeVars>>
coreVars == <<histVars, gateVars, sessVars>>

-----------------------------------------------------------------------------
(* Bounds of the model                                                     *)

\* signals generated (uuid4 calls) in one behaviour, besides the prefilled ones
MaxSignals == 3
\* last clock value, in seconds
MaxTime == 20

(* Program constants                                                       *)

\* auto_scanner.py:72  if len(self.signal_history) > 200
HistoryCap == 200
\* auto_scanner.py:168 time_diff < 15
DedupWindow == 15
\* auto_scanner.py:49  asyncio.sleep(8) when no pair is available
EmptyBackoff == 8
\* auto_scanner.py:86  asyncio.sleep(5) after a loop-level exception
ErrorBackoff == 5

Directions == {"CALL", "PUT"}

\* no duplicate check recorded
NoCheck == [signal |-> [signal_id |-> 0, symbol |-> "", direction |-> "", timestamp |-> 0],
            discarded |-> FALSE]

\* Python's None where a TradingSignal is expected
None == [signal_id |-> 0, symbol |-> "", direction |-> "", timestamp |-> 0]

\* a TradingSignal (schemas.py:76-89), the fields the scanner reads
Signal(id, s, d, t) == [signal_id |-> id, symbol |-> s, direction |-> d, timestamp |-> t]

-----------------------------------------------------------------------------
(* Python dict operations                                                  *)

\* d[k] = v
Put(d, k, v) == (k :> v) @@ d
\* d.pop(k, None)
Pop(d, k) == [x \in (DOMAIN d) \ {k} |-> d[x]]
\* d.get(k)
Get(d, k) == IF k \in DOMAIN d THEN d[k] ELSE None
EmptyDict == [x \in {} |-> None]

Min(a, b) == IF a < b THEN a ELSE b

-----------------------------------------------------------------------------
(* AutoScanner: pure parts                                                 *)

\* IsDuplicate with the window closed at its upper end (<= for <)
IsDuplicate_Inclusive(signal, latest) ==
    /\ signal.symbol \in DOMAIN latest
    /\ LET prev_signal == latest[signal.symbol]
           time_diff == signal.timestamp - prev_signal.timestamp
       IN  time_diff <= DedupWindow /\ signal.direction = prev_signal.direction

\* _scan_pair, lines 163-168: the new signal repeats the latest one of its symbol
IsDuplicate(signal, latest) ==
    /\ signal.symbol \in DOMAIN latest
    /\ LET prev_signal == latest[signal.symbol]
           time_diff == signal.timestamp - prev_signal.timestamp
       IN  time_diff < DedupWindow /\ signal.direction = prev_signal.direction

\* _scan_pair, lines 161-171: what the task returns for a generated signal
ScanPairResult(signal, latest) ==
    IF signal # None /\ IsDuplicate(signal, latest) THEN None ELSE signal

\* Evict with the cap test one too late (> cap + 1)
Evict_LateCap(st) ==
    IF Len(st.history) > HistoryCap + 1
    THEN LET oldest == Head(st.history)
         IN  [history |-> Tail(st.history),
              index   |-> Pop(st.index, oldest.signal_id),
              latest  |-> IF Get(st.latest, oldest.symbol) = oldest
                          THEN Pop(st.latest, oldest.symbol)
                          ELSE st.latest]
    ELSE st

\* Evict removing the newest entry (pop() for pop(0))
Evict_PopNewest(st) ==
    IF Len(st.history) > HistoryCap
    THEN LET oldest == st.history[Len(st.history)]
         IN  [history |-> SubSeq(st.history, 1, Len(st.history) - 1),
              index   |-> Pop(st.index, oldest.signal_id),
              latest  |-> IF Get(st.latest, oldest.symbol) = oldest
                          THEN Pop(st.latest, oldest.symbol)
                          ELSE st.latest]
    ELSE st

\* Evict that leaves the evicted signal in signal_index
Evict_KeepIndex(st) ==
    IF Len(st.history) > HistoryCap
    THEN LET oldest == Head(st.history)
         IN  [history |-> Tail(st.history),
              index   |-> st.index,
              latest  |-> IF Get(st.latest, oldest.symbol) = oldest
                          THEN Pop(st.latest, oldest.symbol)
                          ELSE st.latest]
    ELSE st

\* Evict that leaves latest_signals alone
Evict_KeepLatest(st) ==
    IF Len(st.history) > HistoryCap
    THEN LET oldest == Head(st.history)
         IN  [history |-> Tail(st.history),
              index   |-> Pop(st.index, oldest.signal_id),
              latest  |-> st.latest]
    ELSE st

\* start_scanning, lines 72-76: the eviction that follows an append
Evict(st) ==
    IF Len(st.history) > HistoryCap
    THEN LET oldest == Head(st.history)
             index2 == Pop(st.index, oldest.signal_id)
         IN  [history |-> Tail(st.history),
              index   |-> index2,
              latest  |-> IF Get(st.latest, oldest.symbol) = oldest
                          THEN Pop(st.latest, oldest.symbol)
                          ELSE st.latest]
    ELSE st

\* start_scanning, lines 69-76: one pass of the for loop up to the broadcast
Accept(st, signal) ==
    Evict([latest  |-> Put(st.latest, signal.symbol, signal),
           history |-> Append(st.history, signal),
           index   |-> Put(st.index, signal.signal_id, signal)])

\* lines 58-61 of a loop that gives up the cycle when one task failed
OnlySignals_AbortOnFailure(rs) ==
    IF \E i \in DOMAIN rs : rs[i] = None THEN <<>> ELSE rs

\* start_scanning, lines 58-61: the TradingSignal results, in task order
OnlySignals(rs) == SelectSeq(rs, LAMBDA r : r # None)

\* clear_old_signals, line 204
KeepRecent(hist, cutoff) == SelectSeq(hist, LAMBDA s : s.timestamp >= cutoff)

\* clear_old_signals, line 205: the dict comprehension {s.signal_id: s for s in
\* hist[lo..hi]}; an entry made later replaces an earlier one with the same key
RECURSIVE IndexRange(_, _, _)
IndexRange(hist, lo, hi) ==
    IF lo > hi THEN EmptyDict
    ELSE IF lo = hi THEN (hist[lo].signal_id :> hist[lo])
    ELSE LET mid == (lo + hi) \div 2
         IN  IndexRange(hist, mid + 1, hi) @@ IndexRange(hist, lo, mid)

IndexOf(hist) == IndexRange(hist, 1, Len(hist))

\* clear_old_signals, lines 209-211: one pass of the rebuilding loop
LatestStep(latest, sig) ==
    LET prev == Get(latest, sig.symbol)
    IN  IF prev = None \/ sig.timestamp > prev.timestamp
        THEN Put(latest, sig.symbol, sig)
        ELSE latest

\* clear_old_signals, lines 208-211: the loop over hist[lo..hi], in order
RECURSIVE LatestLoop(_, _, _, _)
LatestLoop(latest, hist, lo, hi) ==
    IF lo > hi THEN latest
    ELSE IF lo = hi THEN LatestStep(latest, hist[lo])
    ELSE LET mid == (lo + hi) \div 2
             first == LatestLoop(latest, hist, lo, mid)
         IN  \* the test has the first half evaluated before the second starts
             IF first = first THEN LatestLoop(first, hist, mid + 1, hi) ELSE latest

\* clear_old_signals, lines 207-211
RebuildLatest(hist) == LatestLoop(EmptyDict, hist, 1, Len(hist))

\* get_signal_by_id, line 197
GetSignalById(id) == Get(signal_index, id)

\* start_scanning, line 82: the pause between two cycles
CycleSleep(sens) == IF sens = "aggressive" THEN 2 ELSE 4

-----------------------------------------------------------------------------
(* AutoScanner: the inputs of the model                                    *)

\* What get_available_pairs may answer. IQOptionClient.get_available_pairs
\* (iqoption_client.py:548-575) lists an asset once per market (binary, turbo,
\* digital), so one symbol can occur more than once in the list.
PairLists == { <<>>, <<"EURUSD", "GBPUSD">>, <<"EURUSD", "EURUSD">> }

\* max_age_minutes given to clear_old_signals (default 30)
MaxAges == {0, 30}

\* how far the clock moves in one step, in seconds
TimeSteps == {5}

Sensitivities == {"aggressive", "moderate"}

\* seconds for which the scanner with the full history is observed
EvictSpan == 5

\* The i-th of k signals accepted before the model starts: one every 8 s, the
\* first for USDJPY, then EURUSD and GBPUSD in turn, so that none is a
\* duplicate of its predecessor (16 s earlier) and all are younger than 30
\* minutes while the model runs.
PrefillSignal(i, k) ==
    Signal(0 - (k - i + 1),
           IF i = 1 THEN "USDJPY" ELSE IF i % 2 = 1 THEN "EURUSD" ELSE "GBPUSD",
           "CALL",
           0 - (k - i + 1) * 8)

\* The scanner state after sigs[lo..hi] have been accepted one by one
\* (lines 69-76), starting from st
RECURSIVE AcceptAll(_, _, _, _)
AcceptAll(st, sigs, lo, hi) ==
    IF lo > hi THEN st
    ELSE IF lo = hi THEN Accept(st, sigs[lo])
    ELSE LET mid == (lo + hi) \div 2
             first == AcceptAll(st, sigs, lo, mid)
         IN  \* the test has the first half evaluated before the second starts
             IF first = first THEN AcceptAll(first, sigs, mid + 1, hi) ELSE st

Prefill(k) == [i \in 1..k |-> PrefillSignal(i, k)]

Replay(sigs) ==
    AcceptAll([latest |-> EmptyDict, history |-> <<>>, index |-> EmptyDict],
              sigs, 1, Len(sigs))

ScannerState == [latest |-> latest_signals, history |-> signal_history,
                 index |-> signal_index]

-----------------------------------------------------------------------------
(* AutoScanner: actions                                                    *)

\* AutoScanner.__init__ (lines 32-38) and the first statement of
\* start_scanning (line 42), followed by k accepted signals; the clock reads t0
InitScanner(k, t0) ==
    /\ LET st == Replay(Prefill(k))
       IN  /\ latest_signals = st.latest
           /\ signal_history = st.history
           /\ signal_index = st.index
    /\ prefilled = k
    /\ accepted = <<>>
    /\ is_running = TRUE
    /\ scanPc = "top"
    /\ pairs = <<>>
    /\ taskState = <<>>
    /\ results = <<>>
    /\ new_signals = <<>>
    /\ wakeAt = 0
    /\ sensitivity \in Sensitivities
    /\ now = t0
    /\ nextId = 1
    /\ cleared = FALSE
    /\ lastCheck = NoCheck

\* line 44 true, line 46: the loop calls _get_pairs_to_scan and is suspended
LoopEnter ==
    /\ UNCHANGED notHist
    /\ scanPc = "top"
    /\ is_running
    /\ scanPc' = "pairs"
    /\ UNCHANGED <<is_running, latest_signals, signal_history, signal_index,
                   pairs, taskState, results, new_signals, wakeAt, sensitivity,
                   now, nextId, prefilled, accepted, cleared, lastCheck>>

\* line 44 false: the loop ends
LoopExit ==
    /\ UNCHANGED notHist
    /\ scanPc = "top"
    /\ ~is_running
    /\ scanPc' = "stopped"
    /\ UNCHANGED <<is_running, latest_signals, signal_history, signal_index,
                   pairs, taskState, results, new_signals, wakeAt, sensitivity,
                   now, nextId, prefilled, accepted, cleared, lastCheck>>

\* lines 46-55: the pair list arrives; empty: sleep(8); else one _scan_pair
\* task per pair is handed to gather
PairsReturned ==
    /\ UNCHANGED notHist
    /\ scanPc = "pairs"
    /\ \E ps \in PairLists :
         IF ps = <<>>
         THEN /\ scanPc' = "sleep"
              /\ wakeAt' = now + EmptyBackoff
              /\ UNCHANGED <<pairs, taskState, results>>
         ELSE /\ scanPc' = "gather"
              /\ pairs' = ps
              /\ taskState' = [i \in 1..Len(ps) |-> "fetching"]
              /\ results' = [i \in 1..Len(ps) |-> None]
              /\ UNCHANGED wakeAt
    /\ UNCHANGED <<is_running, latest_signals, signal_history, signal_index,
                   new_signals, sensitivity, now, nextId, prefilled, accepted,
                   cleared, lastCheck>>

\* _scan_pair, lines 139-175, from the return of get_candles on: no signal
\* (fetch error, too few candles, generator returns None)
ScanPairNoSignal(i) ==
    /\ UNCHANGED notHist
    /\ scanPc = "gather"
    /\ i \in DOMAIN taskState
    /\ taskState[i] = "fetching"
    /\ taskState' = [taskState EXCEPT ![i] = "done"]
    /\ results' = [results EXCEPT ![i] = None]
    /\ UNCHANGED <<is_running, latest_signals, signal_history, signal_index,
                   scanPc, pairs, new_signals, wakeAt, sensitivity, now, nextId,
                   prefilled, accepted, cleared, lastCheck>>

\* _scan_pair, lines 139-171: generate_signal returns a signal stamped now
\* (signal_generator.py:122,133-134); the task returns it unless it is a duplicate
ScanPairSignal(i, d) ==
    /\ UNCHANGED notHist
    /\ scanPc = "gather"
    /\ i \in DOMAIN taskState
    /\ taskState[i] = "fetching"
    /\ nextId <= MaxSignals
    /\ LET signal == Signal(nextId, pairs[i], d, now)
           result == ScanPairResult(signal, latest_signals)
       IN  /\ results' = [results EXCEPT ![i] = result]
           /\ lastCheck' = [signal |-> signal, discarded |-> (result = None)]
    /\ taskState' = [taskState EXCEPT ![i] = "done"]
    /\ nextId' = nextId + 1
    /\ UNCHANGED <<is_running, latest_signals, signal_history, signal_index,
                   scanPc, pairs, new_signals, wakeAt, sensitivity, now,
                   prefilled, accepted, cleared>>

\* lines 69-78 for one signal, then the await of broadcast_signal
HandleSignals(sigs) ==
    LET st == Accept(ScannerState, Head(sigs))
    IN  /\ latest_signals' = st.latest
        /\ signal_history' = st.history
        /\ signal_index' = st.index
        /\ accepted' = IF cleared THEN accepted ELSE Append(accepted, Head(sigs))
        /\ new_signals' = Tail(sigs)
        /\ scanPc' = "broadcast"
        /\ UNCHANGED wakeAt

\* line 82: the pause after a cycle
GoToSleep ==
    /\ scanPc' = "sleep"
    /\ wakeAt' = now + CycleSleep(sensitivity)
    /\ new_signals' = <<>>
    /\ UNCHANGED <<latest_signals, signal_history, signal_index, accepted>>

\* lines 55-82: gather returns once every task is done
GatherReturns ==
    /\ UNCHANGED notHist
    /\ scanPc = "gather"
    /\ \A i \in DOMAIN taskState : taskState[i] = "done"
    /\ LET sigs == OnlySignals(results)
       IN  IF sigs # <<>> THEN HandleSignals(sigs) ELSE GoToSleep
    \* the tasks and their results are locals of the cycle: dead from here on
    /\ pairs' = <<>>
    /\ taskState' = <<>>
    /\ results' = <<>>
    /\ lastCheck' = NoCheck
    /\ UNCHANGED <<is_running, sensitivity, now, nextId, prefilled, cleared>>

\* lines 66-82: broadcast_signal returns; next signal of the cycle, or the pause
BroadcastReturns ==
    /\ UNCHANGED notHist
    /\ scanPc = "broadcast"
    /\ IF new_signals # <<>> THEN HandleSignals(new_signals) ELSE GoToSleep
    /\ UNCHANGED <<is_running, pairs, taskState, results, sensitivity, now,
                   nextId, prefilled, cleared, lastCheck>>

\* lines 84-86: broadcast_signal raises; the rest of the cycle is dropped
BroadcastRaises ==
    /\ UNCHANGED notHist
    /\ scanPc = "broadcast"
    /\ scanPc' = "sleep"
    /\ wakeAt' = now + ErrorBackoff
    /\ new_signals' = <<>>
    /\ UNCHANGED <<is_running, latest_signals, signal_history, signal_index,
                   pairs, taskState, results, sensitivity, now, nextId,
                   prefilled, accepted, cleared, lastCheck>>

\* the pending asyncio.sleep (lines 49, 82, 86) is over
SleepReturns ==
    /\ UNCHANGED notHist
    /\ scanPc = "sleep"
    /\ now >= wakeAt
    /\ scanPc' = "top"
    /\ UNCHANGED <<is_running, latest_signals, signal_history, signal_index,
                   pairs, taskState, results, new_signals, wakeAt, sensitivity,
                   now, nextId, prefilled, accepted, cleared, lastCheck>>

\* stop_scanning, lines 88-91
StopScanning ==
    /\ UNCHANGED notHist
    /\ is_running
    /\ is_running' = FALSE
    /\ UNCHANGED <<latest_signals, signal_history, signal_index, scanPc,
                   pairs, taskState, results, new_signals, wakeAt, sensitivity,
                   now, nextId, prefilled, accepted, cleared, lastCheck>>

\* clear_old_signals, lines 199-215
ClearOldSignals(max_age_minutes) ==
    /\ UNCHANGED notHist
    /\ LET cutoff == now - max_age_minutes * 60
           kept == KeepRecent(signal_history, cutoff)
       IN  /\ signal_history' = kept
           /\ signal_index' = IndexOf(kept)
           /\ latest_signals' = RebuildLatest(kept)
    /\ cleared' = TRUE
    /\ accepted' = <<>>
    /\ UNCHANGED <<is_running, scanPc, pairs, taskState, results, new_signals,
                   wakeAt, sensitivity, now, nextId, prefilled, lastCheck>>

\* time passes
TickHistory ==
    /\ UNCHANGED notHist
    /\ \E d \in TimeSteps :
         /\ now + d <= MaxTime
         /\ now' = now + d
    /\ UNCHANGED <<is_running, latest_signals, signal_history, signal_index,
                   scanPc, pairs, taskState, results, new_signals, wakeAt,
                   sensitivity, nextId, prefilled, accepted, cleared, lastCheck>>

NextHistory ==
    \/ LoopEnter
    \/ LoopExit
    \/ PairsReturned
    \/ \E i \in 1..2 : ScanPairNoSignal(i)
    \/ \E i \in 1..2, d \in Directions : ScanPairSignal(i, d)
    \/ GatherReturns
    \/ BroadcastReturns
    \/ BroadcastRaises
    \/ SleepReturns
    \/ StopScanning
    \/ \E m \in MaxAges : ClearOldSignals(m)
    \/ TickHistory

-----------------------------------------------------------------------------
(* The parts of the program a specification does not exercise              *)

\* connect_user / disconnect_user calls that can be in progress at once
NumCalls == 2
\* IQOptionClient objects constructed in one behaviour
MaxClients == 3
\* last clock value of the session model, in minutes
MaxSessTime == 1

\* session_manager.py:21  self.timeout_minutes = 30
TimeoutMinutes == 30
\* session_manager.py:222  asyncio.sleep(60), in minutes
CleanupSleep == 1

Users == {"ana", "bia"}
UserSeq == <<"ana", "bia">>

\* no call in this slot
IdleCall ==
    [op |-> "idle", username |-> "", pc |-> "", client |-> 0, email |-> "",
     account_type |-> "", reuse |-> FALSE, message |-> ""]

\* the history variable ret is not kept
RetOff ==
    [op |-> "off", username |-> "", client |-> 0, success |-> FALSE, message |-> "",
     login |-> "", reuse |-> FALSE, email |-> "", account_type |-> ""]

\* no session manager has been started
SessIdle ==
    /\ clients = <<>>
    /\ sessions = <<>>
    /\ session_timeouts = <<>>
    /\ account_types = <<>>
    /\ calls = [k \in 1..NumCalls |-> IdleCall]
    /\ reaper = [pc |-> "off", wakeAt |-> 0, inactive_users |-> <<>>, idx |-> 0, client |-> 0]
    /\ sNow = 0
    /\ tick = [sessions |-> {}, torn |-> {}, failed |-> 0, done |-> FALSE, fresh |-> {}]
    /\ ret = RetOff

\* no function call is observed and no scanner was ever started
RestIdle ==
    /\ fnIn = [fn |-> "none"]
    /\ fnOut = [done |-> FALSE]
    /\ lKind = "none"
    /\ scanners = <<>>
    /\ scanner_instances = 0
    /\ scanner_tasks = 0
    /\ starts = <<>>
    /\ session = "none"
    /\ resp = [op |-> "none", status |-> 0, reconnected |-> FALSE]

\* the fan-out model is not running
GateIdle ==
    /\ gKind = "none"
    /\ gPc = "off"
    /\ gPairs = 0
    /\ gIdx = 0
    /\ gTask = <<>>
    /\ gStart = <<>>
    /\ gHung = 0
    /\ gSem = 0
    /\ gWakeAt = 0
    /\ gNow = 0

\* a scanner that starts with an empty history
InitHistory == InitScanner(0, 0) /\ GateIdle /\ SessIdle /\ RestIdle

SpecHistory == InitHistory /\ [][NextHistory]_vars

\* a scanner of the default sensitivity whose history is one signal short of
\* the cap, observed for the last EvictSpan seconds
InitEvict ==
    /\ InitScanner(HistoryCap - 1, MaxTime - EvictSpan)
    /\ sensitivity = "moderate"
    /\ GateIdle
    /\ SessIdle
    /\ RestIdle

SpecEvict == InitEvict /\ [][NextHistory]_vars

-----------------------------------------------------------------------------
(* One scan loop as a fan-out of per-pair fetch+generate operations:       *)
(* AutoScanner.start_scanning (auto_scanner.py:40-86) and                  *)
(* IQOptionScanner.start_scanning (iqoption_scanner.py:75-123).            *)
(* A per-pair operation (_scan_pair) is in flight from the moment its      *)
(* coroutine is started until it returns or is cancelled; all its time is  *)
(* spent in the fetch (get_candles), an executor call without a timeout    *)
(* of its own (iqoption_client.py:473-482).                                *)

\* pairs the broker offers after the configured filters
NumPairs == 6
\* last clock value of the fan-out model, in seconds
MaxGateTime == 35

\* auto_scanner.py:116  max_pairs = 30
MaxPairs == 30
\* iqoption_scanner.py:31  asyncio.Semaphore(5)
SemaphoreSlots == 5
\* iqoption_scanner.py:96  timeout=10.0
PairTimeout == 10
\* iqoption_scanner.py:32  self._scan_interval = 30
ScanInterval == 30
\* auto_scanner.py:82  sleep(... else 4)
AutoInterval == 4

\* _get_pairs_to_scan, line 120: pairs[:max_pairs]
CappedPairs(n) == Min(n, MaxPairs)

\* the per-pair operations that are running
InFlight == Cardinality({i \in DOMAIN gTask : gTask[i] = "inflight"})

InitGate ==
    /\ gKind \in {"auto", "iq"}
    /\ gPc = "top"
    /\ gPairs = CappedPairs(NumPairs)
    /\ gIdx = 0
    /\ gTask = [i \in 1..CappedPairs(NumPairs) |-> "idle"]
    /\ gStart = [i \in 1..CappedPairs(NumPairs) |-> 0]
    /\ gHung = 0
    /\ gSem = SemaphoreSlots
    /\ gWakeAt = 0
    /\ gNow = 0
    /\ InitScanner(0, 0)
    /\ sensitivity = "moderate"
    /\ SessIdle
    /\ RestIdle

\* AutoScanner.start_scanning, lines 54-55: one _scan_pair coroutine per pair,
\* all handed to gather at once; each runs up to its await of get_candles.
\* At most one of the fetches (h) never returns.
AutoGather ==
    /\ UNCHANGED notGate
    /\ gKind = "auto"
    /\ gPc = "top"
    /\ \E h \in 0..gPairs : gHung' = h
    /\ gTask' = [i \in 1..gPairs |-> "inflight"]
    /\ gStart' = [i \in 1..gPairs |-> gNow]
    /\ gPc' = "gather"
    /\ UNCHANGED <<gKind, gPairs, gIdx, gSem, gWakeAt, gNow>>

\* AutoScanner._scan_pair, lines 139-175: the fetch of pair i returns (or
\* raises) and the coroutine runs to its end
AutoScanPairEnds(i) ==
    /\ UNCHANGED notGate
    /\ gKind = "auto"
    /\ gPc = "gather"
    /\ gTask[i] = "inflight"
    /\ i # gHung
    /\ gTask' = [gTask EXCEPT ![i] = "done"]
    /\ UNCHANGED <<gKind, gPc, gPairs, gIdx, gStart, gHung, gSem, gWakeAt, gNow>>

\* AutoScanner.start_scanning, lines 55-82: gather returns when every
\* coroutine has ended; the results are handled and the loop sleeps
AutoGatherReturns ==
    /\ UNCHANGED notGate
    /\ gKind = "auto"
    /\ gPc = "gather"
    /\ \A i \in 1..gPairs : gTask[i] = "done"
    /\ gPc' = "sleep"
    /\ gWakeAt' = gNow + AutoInterval
    /\ UNCHANGED <<gKind, gPairs, gIdx, gTask, gStart, gHung, gSem, gNow>>

\* IQOptionScanner.start_scanning, lines 87-97: the for loop takes the next
\* pair, enters the semaphore and starts wait_for(_scan_pair(pair), 10.0)
IqStartPair ==
    /\ UNCHANGED notGate
    /\ gKind = "iq"
    /\ gPc \in {"top", "next"}
    /\ LET i == IF gPc = "top" THEN 1 ELSE gIdx + 1
       IN  /\ i <= gPairs
           /\ gSem > 0
           /\ gSem' = gSem - 1
           /\ gIdx' = i
           /\ gTask' = [[k \in 1..gPairs |-> IF gPc = "top" THEN "idle" ELSE gTask[k]]
                           EXCEPT ![i] = "inflight"]
           /\ gStart' = [gStart EXCEPT ![i] = gNow]
           /\ \E h \in {0, i} : gHung' = h
    /\ gPc' = "wait"
    /\ UNCHANGED <<gKind, gPairs, gWakeAt, gNow>>

\* lines 94-104: _scan_pair returns (a signal, None) within the timeout; the
\* semaphore is left
IqScanPairEnds ==
    /\ UNCHANGED notGate
    /\ gKind = "iq"
    /\ gPc = "wait"
    /\ gIdx # gHung
    /\ gTask' = [gTask EXCEPT ![gIdx] = "done"]
    /\ gSem' = gSem + 1
    /\ gPc' = "next"
    /\ UNCHANGED <<gKind, gPairs, gIdx, gStart, gHung, gWakeAt, gNow>>

\* lines 94-102: wait_for gives up after 10 s: the coroutine is cancelled,
\* TimeoutError is caught, the semaphore is left
IqTimeout ==
    /\ UNCHANGED notGate
    /\ gKind = "iq"
    /\ gPc = "wait"
    /\ gNow - gStart[gIdx] >= PairTimeout
    /\ gTask' = [gTask EXCEPT ![gIdx] = "cancelled"]
    /\ gSem' = gSem + 1
    /\ gPc' = "next"
    /\ UNCHANGED <<gKind, gPairs, gIdx, gStart, gHung, gWakeAt, gNow>>

\* lines 87, 106-114: the for loop is over; sleep(self._scan_interval)
IqCycleEnds ==
    /\ UNCHANGED notGate
    /\ gKind = "iq"
    /\ gPc = "next"
    /\ gIdx = gPairs
    /\ gPc' = "sleep"
    /\ gWakeAt' = gNow + ScanInterval
    /\ UNCHANGED <<gKind, gPairs, gIdx, gTask, gStart, gHung, gSem, gNow>>

\* auto_scanner.py:82, iqoption_scanner.py:114: the sleep is over and the
\* loop condition is evaluated (auto_scanner.py:44, iqoption_scanner.py:75)
GateSleepReturns ==
    /\ UNCHANGED notGate
    /\ gPc = "sleep"
    /\ gNow >= gWakeAt
    /\ gPc' = IF is_running THEN "top" ELSE "off"
    /\ UNCHANGED <<gKind, gPairs, gIdx, gTask, gStart, gHung, gSem, gWakeAt, gNow>>

\* stop_scanning() on the running scanner. AutoScanner (auto_scanner.py:
\* 88-91) clears is_running and nothing else. IQOptionScanner
\* (iqoption_scanner.py:125-137) also cancels its task: the pair in flight is
\* cancelled with it, the semaphore is left and the loop ends (lines 116-118)
GateStop ==
    /\ is_running
    /\ gPc # "off"
    /\ is_running' = FALSE
    /\ IF gKind = "iq"
       THEN /\ gPc' = "off"
            /\ gTask' = [i \in DOMAIN gTask |->
                            IF gTask[i] = "inflight" THEN "cancelled" ELSE gTask[i]]
            /\ gSem' = SemaphoreSlots
       ELSE UNCHANGED <<gPc, gTask, gSem>>
    /\ UNCHANGED <<gKind, gPairs, gIdx, gStart, gHung, gWakeAt, gNow>>
    /\ UNCHANGED <<latest_signals, signal_history, signal_index, scanPc, pairs,
                   taskState, results, new_signals, wakeAt, sensitivity, now, nextId,
                   prefilled, accepted, cleared, lastCheck>>
    /\ UNCHANGED <<sessVars, fnIn, fnOut, lifeVars>>

\* Time passes. A pending wait_for (iqoption_scanner.py:94-97) fires when its
\* 10 s are over: the clock does not pass that instant before it has fired.
TickGate ==
    /\ UNCHANGED notGate
    /\ \E d \in TimeSteps :
         /\ gNow + d <= MaxGateTime
         /\ (gKind = "iq" /\ gPc = "wait") => gNow + d - gStart[gIdx] <= PairTimeout
         /\ gNow' = gNow + d
    /\ UNCHANGED <<gKind, gPc, gPairs, gIdx, gTask, gStart, gHung, gSem, gWakeAt>>

NextGate ==
    \/ AutoGather
    \/ \E i \in 1..NumPairs : AutoScanPairEnds(i)
    \/ AutoGatherReturns
    \/ IqStartPair
    \/ IqScanPairEnds
    \/ IqTimeout
    \/ IqCycleEnds
    \/ GateSleepReturns
    \/ GateStop
    \/ TickGate

SpecGate == InitGate /\ [][NextGate]_vars

\* C8: during one scan cycle the number of per-pair fetch+generate
\* operations in flight never exceeds 5, in AutoScanner as in IQOptionScanner.
C8_AtMost5InFlight == InFlight <= 5

\* C9: a fetch that never returns is abandoned after the per-instrument
\* timeout (10 s): no scan loop, AutoScanner or IQOptionScanner, is still
\* waiting for the per-pair operation of the hung fetch more than 10 s after
\* it was started.
C9_HungFetchAbandoned ==
    \A i \in DOMAIN gTask :
        (gTask[i] = "inflight" /\ i = gHung) => gNow - gStart[i] <= 10

\* C23: once stop_scanning() was called on a running scanner, no per-pair
\* operation of its loop is waited for longer than the per-instrument timeout
\* (10 s) after its start: the loop ends after at most the pass in flight,
\* each instrument in flight delaying it by no more than the timeout.
C23_StopEndsLoopWithinTimeout ==
    (~is_running /\ gPc # "off") =>
        \A i \in DOMAIN gTask :
            gTask[i] = "inflight" => gNow - gStart[i] <= PairTimeout

-----------------------------------------------------------------------------
(* IQOptionSessionManager (session_manager.py) and the IQOptionClient       *)
(* objects it owns (iqoption_client.py). Clients are named by the order of  *)
(* their construction; a name is never reused. An email stands for the      *)
(* pair (email, password) of a request. Times are in minutes.               *)

\* Python's None where a credential is expected
NoEmail == ""
\* the credentials a login request can carry
Emails == {"e1", "e2"}
\* the credentials of the requests of SpecSession
DefaultEmail == "e1"
\* Python's None where an account type is expected
NoAccount == ""

\* str.strip().upper() on the account type texts of the model
Upper(text) ==
    CASE text = "real" -> "REAL"
      [] text = "practice" -> "PRACTICE"
      [] OTHER -> text

\* IQOptionClient._normalize_account_type, lines 312-319
NormalizeAccountType(account_type) ==
    IF account_type = NoAccount
    THEN "PRACTICE"
    ELSE IF Upper(account_type) \notin {"PRACTICE", "REAL"}
         THEN "PRACTICE"
         ELSE Upper(account_type)

\* IQOptionClient.__init__, lines 36-50, for the client of connect_user line
\* 77; IQOPTION_ACCOUNT_TYPE is not set in the environment. last_error is
\* kept as set / not set; connected_email stands for _connected_email,
\* _connected_password and _connected_account_type, which are written and
\* cleared together. shared is history, not a field of the object: two logins
\* (connect, submit_two_factor_code) have been in progress on the client at
\* the same time
NewClient(u, email, account_type) ==
    [connected |-> FALSE, api |-> FALSE, awaiting_two_factor |-> FALSE, username |-> u,
     email |-> email, account_type |-> NormalizeAccountType(account_type),
     last_error |-> FALSE, connected_email |-> NoEmail, shared |-> FALSE]

\* a client whose login has been validated
ConnectedClient(u) ==
    [NewClient(u, DefaultEmail, NoAccount) EXCEPT !.connected = TRUE, !.api = TRUE,
                                                  !.connected_email = DefaultEmail]

\* the manager and its clients as one value; torn: the clients on which
\* IQOptionClient.disconnect has completed since the reaper's tick began
Mgr ==
    [clients |-> clients, sessions |-> sessions, session_timeouts |-> session_timeouts,
     account_types |-> account_types, torn |-> tick.torn, fresh |-> tick.fresh]

\* IQOptionClient._clear_connection_state, lines 286-296
ClearConnectionState(st, c) ==
    [st EXCEPT !.clients[c] = [@ EXCEPT !.connected = FALSE, !.api = FALSE,
                                        !.awaiting_two_factor = FALSE,
                                        !.connected_email = NoEmail]]

\* self.last_error = <a message>
SetLastError(st, c) == [st EXCEPT !.clients[c].last_error = TRUE]

\* IQOptionClient.set_account_type, lines 66-68
SetAccountType(st, c, account_type) ==
    [st EXCEPT !.clients[c].account_type = NormalizeAccountType(account_type)]

\* connect compares the credentials with self.email whatever was passed
ConnectStart_CompareArgument(st, c, email, account_type) ==
    LET cl == st.clients[c]
    IN  IF cl.connected /\ cl.api
        THEN IF email # cl.connected_email
             THEN [st |-> st, outcome |-> "disconnect"]
             ELSE [st |-> st, outcome |-> "connected"]
        ELSE [st |-> [st EXCEPT !.clients[c].awaiting_two_factor = FALSE],
              outcome |-> "login"]

\* IQOptionClient.connect, lines 83-119, up to its first suspension or its
\* return. outcome "connected": return True at line 114; "switch": suspended
\* on change_balance at line 109; "disconnect": self.disconnect() of line 106;
\* "missing": return False at line 119; "login": the try of line 121
ConnectStart(st, c, email, account_type) ==
    LET cl0 == st.clients[c]
        previous_account == cl0.account_type
        cl1 == [cl0 EXCEPT
                  !.email = IF email # NoEmail THEN email ELSE @,
                  !.account_type = IF account_type # NoAccount
                                   THEN NormalizeAccountType(account_type) ELSE @,
                  !.awaiting_two_factor = FALSE]
        credentials_changed ==
            cl1.connected_email # NoEmail /\ cl1.email # cl1.connected_email
        account_changed == previous_account # cl1.account_type
        st1 == [st EXCEPT !.clients[c] = cl1]
    IN  IF cl1.connected /\ cl1.api
        THEN IF credentials_changed
             THEN [st |-> st1, outcome |-> "disconnect"]
             ELSE IF account_changed
                  THEN [st |-> st1, outcome |-> "switch"]
                  ELSE [st |-> st1, outcome |-> "connected"]
        ELSE IF cl1.email = NoEmail
             THEN [st |-> SetLastError(st1, c), outcome |-> "missing"]
             ELSE [st |-> st1, outcome |-> "login"]

\* IQOptionClient.disconnect, line 273: the transport has to be closed, which
\* suspends the caller
DisconnectSuspends(st, c) == st.clients[c].api /\ st.clients[c].connected

\* IQOptionClient.disconnect, lines 280-284: close has returned or raised (or
\* was not needed); finally: _clear_connection_state
ClientDisconnected(st, c) ==
    [ClearConnectionState(st, c) EXCEPT !.torn = @ \cup {c}]

\* the entry of session_timeouts is left behind
RemoveSession_KeepTimeout(st, u) ==
    IF u \in DOMAIN st.sessions
    THEN [st EXCEPT !.sessions = Pop(@, u), !.account_types = Pop(@, u)]
    ELSE st

\* disconnect_user, lines 116-118 and 123-125: del self.sessions[username]
\* raises KeyError, caught at line 123, when the entry is gone; the two pops
\* are then skipped
RemoveSession(st, u) ==
    IF u \in DOMAIN st.sessions
    THEN [st EXCEPT !.sessions = Pop(@, u),
                    !.session_timeouts = Pop(@, u),
                    !.account_types = Pop(@, u)]
    ELSE st

\* disconnect_user, lines 112-121, up to its first suspension
DisconnectUserStart(st, u) ==
    IF u \notin DOMAIN st.sessions
    THEN [st |-> st, pc |-> "returned", client |-> 0]
    ELSE LET c == st.sessions[u]
         IN  IF DisconnectSuspends(st, c)
             THEN [st |-> st, pc |-> "disconnect_user", client |-> c]
             ELSE [st |-> RemoveSession(ClientDisconnected(st, c), u),
                   pc |-> "returned", client |-> 0]

\* disconnect_user, lines 115-125, from the return of the close it awaited
DisconnectUserResume(st, u, c) == RemoveSession(ClientDisconnected(st, c), u)

\* connect_user, lines 89-91 and 97-99
Register(st, u, c, t) ==
    [st EXCEPT !.sessions = Put(@, u, c),
               !.session_timeouts = Put(@, u, t),
               !.account_types = Put(@, u, st.clients[c].account_type)]

\* connect_user, lines 77-82, and IQOptionClient.connect, lines 77-125: a new
\* client is constructed and its connect runs up to the await of the
\* IQ_Option constructor
CreateClient(st, u, email, account_type) ==
    LET made == [st EXCEPT !.clients = Append(@, NewClient(u, email, account_type))]
    IN  ConnectStart(made, Len(made.clients), NoEmail, account_type).st

\* the manager's four maps and the clients take the values of st
CommitMgr(st) ==
    /\ clients' = st.clients
    /\ sessions' = st.sessions
    /\ session_timeouts' = st.session_timeouts
    /\ account_types' = st.account_types

\* the clients the current reaper tick found registered and idle
TickClients == {uc[2] : uc \in tick.sessions}

\* the history variable follows the disconnects completed in st
NoteTorn(st) == tick' = [tick EXCEPT !.torn = st.torn \cap TickClients]

\* the step just taken returned from no call
NoRet == [RetOff EXCEPT !.op = "none"]

\* the value ret takes when the step just taken makes it r
Recorded(r) == IF ret = RetOff THEN ret ELSE r

\* the step returns from no call
NoReturn == ret' = Recorded(NoRet)

\* the record of a call op(u, email, account_type) that begins
NewCall(op, u, email, account_type) ==
    [IdleCall EXCEPT !.op = op, !.username = u, !.email = email,
                     !.account_type = account_type]

\* the call of slot k is suspended at pc, holding client c
CallAt(k, call, pc, c) ==
    /\ calls' = [calls EXCEPT ![k] = [call EXCEPT !.pc = pc, !.client = c]]
    /\ NoReturn

\* the call of slot k, which worked on client c, returns (success, message);
\* login: how the login it made on c (IQOptionClient.connect or
\* submit_two_factor_code) ended
CallReturnsAfter(k, call, c, success, message, login) ==
    /\ calls' = [calls EXCEPT ![k] = IdleCall]
    /\ ret' = Recorded([op |-> call.op, username |-> call.username, client |-> c,
                        success |-> success, message |-> message, login |-> login,
                        reuse |-> call.reuse, email |-> call.email,
                        account_type |-> call.account_type])

\* the call of slot k, which worked on client c, returns (success, message),
\* the message being that of the client when it made a login
CallReturns(k, call, c, success, message) ==
    CallReturnsAfter(k, call, c, success, message, message)

\* where a call is suspended inside IQOptionClient.connect (lines 121-152)
\* or submit_two_factor_code (lines 160-182)
LoginPcs ==
    {"ctor", "api_connect", "connect_2fa", "change_balance", "check_connect",
     "get_balance", "finalize_disconnect"}

\* history: a login begins on client c, possibly while another is in progress
StartLogin(st, c) ==
    [st EXCEPT !.clients[c].shared =
                 @ \/ \E j \in 1..NumCalls : calls[j].client = c /\ calls[j].pc \in LoginPcs]

\* a new call takes the first slot that holds no call
FreeSlot(k) == calls[k] = IdleCall /\ \A j \in 1..(k - 1) : calls[j] # IdleCall

\* connect_user calls that have not constructed their client yet
PendingCreations ==
    Cardinality({k \in 1..NumCalls :
                    calls[k].op = "connect_user"
                    /\ calls[k].pc \in {"check_connection", "disconnect_user"}})

\* connect_user lines 70-71: the account type is stored and the reused session
\* is reported active, whatever client.connect of line 69 returned
ReuseReturns(k, call, st, login) ==
    LET u == call.username
        c == call.client
    IN  /\ CommitMgr([st EXCEPT !.account_types = Put(@, u, st.clients[c].account_type)])
        /\ CallReturnsAfter(k, call, c, TRUE, "active_account", login)

\* IQOptionClient.connect has returned False without a pending challenge
\* (lines 136-141 and 146-152: last_error, _clear_connection_state); then
\* connect_user lines 83-104, where nothing is registered, or lines 70-71
ConnectFailed(k, st, message) ==
    LET c == calls[k].client
        st1 == ClearConnectionState(SetLastError(st, c), c)
    IN  IF calls[k].reuse
        THEN ReuseReturns(k, calls[k], st1, message)
        ELSE /\ CommitMgr(st1)
             /\ CallReturns(k, calls[k], c, FALSE, message)

\* _finalize_successful_login has raised: connect catches it (lines 146-152);
\* submit_two_factor_code does not (line 182), so that complete_two_factor
\* returns the failure at lines 143-145
FinalizeRaised(k, st, message) ==
    IF calls[k].op = "complete_two_factor"
    THEN /\ CommitMgr(st)
         /\ CallReturns(k, calls[k], calls[k].client, FALSE, message)
    ELSE ConnectFailed(k, st, message)

\* _finalize_successful_login, lines 441-443, has completed; then connect line
\* 144 with connect_user lines 83-104 or 70-71, or submit_two_factor_code
\* lines 183-185 with complete_two_factor lines 135-142
FinalizeDone(k) ==
    LET u == calls[k].username
        c == calls[k].client
        st == [Mgr EXCEPT !.clients[c].connected_email = clients[c].email]
    IN  CASE calls[k].op = "complete_two_factor" ->
               /\ CommitMgr([st EXCEPT
                               !.session_timeouts = Put(@, u, sNow),
                               !.account_types = Put(@, u, st.clients[c].account_type)])
               /\ CallReturns(k, calls[k], c, TRUE, "verified")
          [] calls[k].op = "connect_user" /\ calls[k].reuse ->
               ReuseReturns(k, calls[k], st, "connected")
          [] calls[k].op \in {"get_candles", "get_user_candles"} ->
               \* get_candles goes on to its fetch, which writes no field
               /\ CommitMgr(st)
               /\ CallReturns(k, calls[k], c, TRUE, "connected")
          [] OTHER ->
               /\ CommitMgr(Register(st, u, c, sNow))
               /\ CallReturns(k, calls[k], c, ~st.clients[c].awaiting_two_factor,
                              IF st.clients[c].awaiting_two_factor
                              THEN "challenge" ELSE "connected")

\* the failed validation raises without self.disconnect()
ValidationFailed_NoDisconnect(k, message) ==
    /\ FinalizeRaised(k, SetLastError(Mgr, calls[k].client), message)
    /\ UNCHANGED tick

\* _finalize_successful_login, lines 417-420 and 433-439: last_error is set
\* and self.disconnect() awaited after a failed validation, then the exception
\* is raised
ValidationFailed(k, message) ==
    LET c == calls[k].client
        st0 == SetLastError(Mgr, c)
    IN  IF DisconnectSuspends(st0, c)
        THEN /\ CommitMgr(st0)
             /\ CallAt(k, [calls[k] EXCEPT !.message = message], "finalize_disconnect", c)
             /\ UNCHANGED tick
        ELSE LET st == ClientDisconnected(st0, c)
             IN  /\ FinalizeRaised(k, st, message)
                 /\ NoteTorn(st)

\* connect_user(u, email, password, account_type), lines 52-82, up to its
\* first suspension; the call is made while fewer than max_clients clients
\* exist or are about to be constructed
ConnectUserCall(k, u, email, account_type, max_clients) ==
    /\ UNCHANGED notSess
    /\ reaper.pc # "off"
    /\ FreeSlot(k)
    /\ Len(clients) + PendingCreations < max_clients
    /\ LET call == NewCall("connect_user", u, email, account_type)
       IN  IF u \in DOMAIN sessions
           THEN LET c == sessions[u]
                    \* lines 56-57
                    st0 == IF account_type # NoAccount
                           THEN SetAccountType(Mgr, c, account_type)
                           ELSE Mgr
                IN  IF clients[c].awaiting_two_factor
                    THEN \* lines 59-62
                         /\ CommitMgr(st0)
                         /\ CallReturnsAfter(k, call, c, FALSE, "challenge", "pending")
                         /\ UNCHANGED tick
                    ELSE IF clients[c].api /\ clients[c].connected
                    THEN \* check_connection, line 216: suspended on the checker
                         /\ CommitMgr(st0)
                         /\ CallAt(k, call, "check_connection", c)
                         /\ UNCHANGED tick
                    ELSE \* check_connection, lines 209-210: False at once; line
                         \* 75: disconnect_user does not suspend on such a client
                         LET st == CreateClient(DisconnectUserStart(st0, u).st, u,
                                                email, account_type)
                         IN  /\ CommitMgr(st)
                             /\ NoteTorn(st)
                             /\ CallAt(k, call, "ctor", Len(st.clients))
           ELSE LET st == CreateClient(Mgr, u, email, account_type)
                IN  /\ CommitMgr(st)
                    /\ CallAt(k, call, "ctor", Len(st.clients))
                    /\ UNCHANGED tick
    /\ UNCHANGED <<reaper, sNow>>

\* connect_user, lines 64-75, from the return of check_connection's checker
\* (iqoption_client.py:216-230); is_ok false stands for a false answer and
\* for an exception. With an account_type, client.connect of line 69 runs up
\* to its return or to the constructor of line 122; the manager never passes
\* credentials there and has set the account type at line 57, so that
\* connect neither disconnects (line 106) nor switches the balance (line 109)
CheckConnectionReturns(k, is_ok) ==
    /\ UNCHANGED notSess
    /\ calls[k].op = "connect_user"
    /\ calls[k].pc = "check_connection"
    /\ LET u == calls[k].username
           c == calls[k].client
           st0 == [Mgr EXCEPT !.clients[c].connected = is_ok,
                              !.clients[c].last_error = IF is_ok THEN @ ELSE TRUE]
       IN  IF is_ok
           THEN \* lines 65-73
                LET st1 == [st0 EXCEPT !.session_timeouts = Put(@, u, sNow)]
                    r == ConnectStart(st1, c, NoEmail, calls[k].account_type)
                IN  /\ UNCHANGED tick
                    /\ CASE calls[k].account_type = NoAccount ->
                              /\ CommitMgr(st1)
                              /\ CallReturns(k, calls[k], c, TRUE, "active")
                         [] calls[k].account_type # NoAccount /\ r.outcome = "connected" ->
                              ReuseReturns(k, calls[k], r.st, "already")
                         [] calls[k].account_type # NoAccount /\ r.outcome = "login" ->
                              /\ CommitMgr(StartLogin(r.st, c))
                              /\ CallAt(k, [calls[k] EXCEPT !.reuse = TRUE], "ctor", c)
                         [] OTHER -> FALSE
           ELSE \* line 75
                LET r == DisconnectUserStart(st0, u)
                IN  IF r.pc = "disconnect_user"
                    THEN /\ CommitMgr(r.st)
                         /\ CallAt(k, calls[k], "disconnect_user", r.client)
                         /\ NoteTorn(r.st)
                    ELSE LET st == CreateClient(r.st, u, calls[k].email,
                                                calls[k].account_type)
                         IN  /\ CommitMgr(st)
                             /\ CallAt(k, calls[k], "ctor", Len(st.clients))
                             /\ NoteTorn(st)
    /\ UNCHANGED <<reaper, sNow>>

\* connect_user, lines 75-82, from the return of the close awaited by its
\* disconnect_user
ConnectUserDisconnected(k) ==
    /\ UNCHANGED notSess
    /\ calls[k].op = "connect_user"
    /\ calls[k].pc = "disconnect_user"
    /\ LET u == calls[k].username
           st == CreateClient(DisconnectUserResume(Mgr, u, calls[k].client), u,
                              calls[k].email, calls[k].account_type)
       IN  /\ CommitMgr(st)
           /\ CallAt(k, calls[k], "ctor", Len(st.clients))
           /\ NoteTorn(st)
    /\ UNCHANGED <<reaper, sNow>>

\* IQOptionClient.connect, lines 122-127 and 146-152: the IQ_Option
\* constructor has returned (ok) or raised
CtorReturns(k, ok) ==
    /\ UNCHANGED notSess
    /\ calls[k].op \in {"connect_user", "get_candles", "get_user_candles"}
    /\ calls[k].pc = "ctor"
    /\ LET c == calls[k].client
       IN  IF ok
           THEN /\ CommitMgr([Mgr EXCEPT !.clients[c].api = TRUE])
                /\ CallAt(k, calls[k], "api_connect", c)
           ELSE ConnectFailed(k, Mgr, "exception")
    /\ UNCHANGED <<reaper, sNow, tick>>

\* IQOptionClient.connect, lines 127-143, and _finalize_successful_login,
\* lines 396-407: api.connect has returned; "rejected" stands for a refusal
\* and for an exception
ApiConnectReturns(k, outcome) ==
    /\ UNCHANGED notSess
    /\ calls[k].op \in {"connect_user", "get_candles", "get_user_candles"}
    /\ calls[k].pc = "api_connect"
    /\ LET u == calls[k].username
           c == calls[k].client
       IN  CASE outcome = "two_factor" ->
                  \* lines 130-134, then connect_user lines 88-94 or 70-71
                  LET st == SetLastError([Mgr EXCEPT !.clients[c].awaiting_two_factor = TRUE],
                                         c)
                  IN  CASE calls[k].reuse ->
                             ReuseReturns(k, calls[k], st, "challenge")
                        [] ~calls[k].reuse /\ calls[k].op = "connect_user" ->
                             /\ CommitMgr(Register(st, u, c, sNow))
                             /\ CallReturns(k, calls[k], c, FALSE, "challenge")
                        [] OTHER ->
                             \* get_candles raises at line 466
                             /\ CommitMgr(st)
                             /\ CallReturns(k, calls[k], c, FALSE, "challenge")
             [] outcome = "ok" /\ clients[c].api ->
                  \* lines 400-407: connected before the validation
                  /\ CommitMgr([Mgr EXCEPT !.clients[c].connected = TRUE,
                                           !.clients[c].awaiting_two_factor = FALSE,
                                           !.clients[c].last_error = FALSE])
                  /\ CallAt(k, calls[k], "change_balance", c)
             [] outcome = "ok" /\ ~clients[c].api ->
                  \* lines 396-397
                  ConnectFailed(k, Mgr, "exception")
             [] OTHER -> ConnectFailed(k, Mgr, "rejected")
    /\ UNCHANGED <<reaper, sNow, tick>>

\* _finalize_successful_login, lines 407-415: change_balance has returned
\* (ok) or raised. When the transport is gone (self.api is None) there is no
\* checker to call, and self.api.get_balance of line 423 raises inside the
\* try of line 422
ChangeBalanceReturns(k, ok) ==
    /\ UNCHANGED notSess
    /\ calls[k].op \in {"connect_user", "complete_two_factor", "get_candles",
                        "get_user_candles"}
    /\ calls[k].pc = "change_balance"
    /\ LET c == calls[k].client
       IN  CASE ok /\ clients[c].api ->
                  /\ CallAt(k, calls[k], "check_connect", c)
                  /\ UNCHANGED <<clients, sessions, session_timeouts, account_types, tick>>
             [] ok /\ ~clients[c].api -> ValidationFailed(k, "balance")
             [] OTHER -> FinalizeRaised(k, Mgr, "exception") /\ UNCHANGED tick
    /\ UNCHANGED <<reaper, sNow>>

\* _finalize_successful_login, lines 415-423: check_connect has returned
CheckConnectReturns(k, outcome) ==
    /\ UNCHANGED notSess
    /\ calls[k].op \in {"connect_user", "complete_two_factor", "get_candles",
                        "get_user_candles"}
    /\ calls[k].pc = "check_connect"
    /\ LET c == calls[k].client
       IN  CASE outcome = "alive" /\ clients[c].api ->
                  /\ CallAt(k, calls[k], "get_balance", c)
                  /\ UNCHANGED <<clients, sessions, session_timeouts, account_types, tick>>
             [] outcome = "alive" /\ ~clients[c].api -> ValidationFailed(k, "balance")
             [] outcome = "dead" -> ValidationFailed(k, "validation")
             [] OTHER -> FinalizeRaised(k, Mgr, "exception") /\ UNCHANGED tick
    /\ UNCHANGED <<reaper, sNow>>

\* _finalize_successful_login, lines 423-443: get_balance has returned a
\* valid balance (ok), or None, a negative value or an exception
GetBalanceReturns(k, ok) ==
    /\ UNCHANGED notSess
    /\ calls[k].op \in {"connect_user", "complete_two_factor", "get_candles",
                        "get_user_candles"}
    /\ calls[k].pc = "get_balance"
    /\ IF ok
       THEN FinalizeDone(k) /\ UNCHANGED tick
       ELSE ValidationFailed(k, "balance")
    /\ UNCHANGED <<reaper, sNow>>

\* _finalize_successful_login, lines 419-420 and 438-439: the close awaited by
\* self.disconnect() has returned
FinalizeDisconnected(k) ==
    /\ UNCHANGED notSess
    /\ calls[k].op \in {"connect_user", "complete_two_factor", "get_candles",
                        "get_user_candles"}
    /\ calls[k].pc = "finalize_disconnect"
    /\ LET st == ClientDisconnected(Mgr, calls[k].client)
       IN  /\ FinalizeRaised(k, st, calls[k].message)
           /\ NoteTorn(st)
    /\ UNCHANGED <<reaper, sNow>>

\* disconnect_user(u) called by a route, lines 112-121, up to its suspension
DisconnectUserCall(k, u) ==
    /\ UNCHANGED notSess
    /\ reaper.pc # "off"
    /\ FreeSlot(k)
    /\ LET r == DisconnectUserStart(Mgr, u)
           call == NewCall("disconnect_user", u, NoEmail, NoAccount)
       IN  /\ CommitMgr(r.st)
           /\ NoteTorn(r.st)
           /\ IF r.pc = "disconnect_user"
              THEN CallAt(k, call, "disconnect_user", r.client)
              ELSE CallReturns(k, call, 0, u \in DOMAIN sessions, "")
    /\ UNCHANGED <<reaper, sNow>>

\* disconnect_user, lines 115-125, from the return of the close it awaited
DisconnectUserReturns(k) ==
    /\ UNCHANGED notSess
    /\ calls[k].op = "disconnect_user"
    /\ LET st == DisconnectUserResume(Mgr, calls[k].username, calls[k].client)
       IN  /\ CommitMgr(st)
           /\ NoteTorn(st)
    /\ CallReturns(k, calls[k], calls[k].client, calls[k].username \in DOMAIN sessions, "")
    /\ UNCHANGED <<reaper, sNow>>

\* complete_two_factor, lines 139-142, once submit_two_factor_code has
\* returned (False, message) on client c
SubmitFailed(k, call, c, st, message) ==
    IF st.clients[c].awaiting_two_factor
    THEN /\ CommitMgr(st)
         /\ CallReturns(k, call, c, FALSE, message)
         /\ UNCHANGED tick
    ELSE LET r == DisconnectUserStart(st, call.username)
         IN  /\ CommitMgr(r.st)
             /\ NoteTorn(r.st)
             /\ IF r.pc = "disconnect_user"
                THEN CallAt(k, [call EXCEPT !.message = message], "disconnect_user",
                            r.client)
                ELSE CallReturns(k, call, c, FALSE, message)

\* complete_two_factor(u, code), lines 129-142, with submit_two_factor_code,
\* lines 156-164, up to its first suspension
CompleteTwoFactorCall(k, u) ==
    /\ UNCHANGED notSess
    /\ reaper.pc # "off"
    /\ FreeSlot(k)
    /\ LET call == NewCall("complete_two_factor", u, NoEmail, NoAccount)
       IN  IF u \notin DOMAIN sessions
           THEN \* lines 130-131
                /\ CallReturns(k, call, 0, FALSE, "not_found")
                /\ UNCHANGED <<clients, sessions, session_timeouts, account_types, tick>>
           ELSE LET c == sessions[u]
                IN  IF clients[c].awaiting_two_factor /\ clients[c].api
                    THEN /\ CommitMgr(StartLogin(Mgr, c))
                         /\ CallAt(k, call, "connect_2fa", c)
                         /\ UNCHANGED tick
                    ELSE \* lines 156-157
                         SubmitFailed(k, call, c, Mgr, "no_challenge")
    /\ UNCHANGED <<reaper, sNow>>

\* submit_two_factor_code, lines 160-182, and _finalize_successful_login,
\* lines 396-407, from the return of api.connect_2fa: the code was accepted
\* ("ok"), answered by a new challenge ("two_factor"), refused ("rejected"),
\* or the transport raised ("raised")
Connect2faReturns(k, outcome) ==
    /\ UNCHANGED notSess
    /\ calls[k].op = "complete_two_factor"
    /\ calls[k].pc = "connect_2fa"
    /\ LET c == calls[k].client
       IN  CASE outcome = "raised" ->
                  \* lines 165-169
                  SubmitFailed(k, calls[k], c, SetLastError(Mgr, c), "exception")
             [] outcome = "two_factor" ->
                  \* lines 172-174 and 178-180
                  SubmitFailed(k, calls[k], c,
                               SetLastError([Mgr EXCEPT
                                               !.clients[c].awaiting_two_factor = TRUE], c),
                               "challenge")
             [] outcome = "rejected" ->
                  \* lines 175-180
                  SubmitFailed(k, calls[k], c,
                               SetLastError(ClearConnectionState(Mgr, c), c), "rejected")
             [] outcome = "ok" /\ clients[c].api ->
                  \* lines 400-407: connected before the validation
                  /\ CommitMgr([Mgr EXCEPT !.clients[c].connected = TRUE,
                                           !.clients[c].awaiting_two_factor = FALSE,
                                           !.clients[c].last_error = FALSE])
                  /\ CallAt(k, calls[k], "change_balance", c)
                  /\ UNCHANGED tick
             [] OTHER ->
                  \* lines 396-397, raised through line 182 to lines 143-145
                  /\ FinalizeRaised(k, Mgr, "exception")
                  /\ UNCHANGED tick
    /\ UNCHANGED <<reaper, sNow>>

\* complete_two_factor, lines 141-142, from the return of the close awaited
\* by its disconnect_user
CompleteTwoFactorDisconnected(k) ==
    /\ UNCHANGED notSess
    /\ calls[k].op = "complete_two_factor"
    /\ calls[k].pc = "disconnect_user"
    /\ LET st == DisconnectUserResume(Mgr, calls[k].username, calls[k].client)
       IN  /\ CommitMgr(st)
           /\ NoteTorn(st)
    /\ CallReturns(k, calls[k], calls[k].client, FALSE, calls[k].message)
    /\ UNCHANGED <<reaper, sNow>>

\* a call that is not a coroutine returns to its caller
Returned(op, u, c, value) ==
    ret' = Recorded([NoRet EXCEPT !.op = op, !.username = u, !.client = c,
                                  !.success = value])

\* get_client writes the time whether or not the user has a session
GetClient_AlwaysRefresh(u) ==
    /\ UNCHANGED notSess
    /\ reaper.pc # "off"
    /\ session_timeouts' = Put(session_timeouts, u, sNow)
    /\ Returned("get_client", u, 0, u \in DOMAIN sessions)
    /\ UNCHANGED <<clients, sessions, account_types, calls, reaper, sNow, tick>>

\* get_client(u), lines 147-152, called by a route; the client is returned,
\* or None
GetClient(u) ==
    /\ UNCHANGED notSess
    /\ reaper.pc # "off"
    /\ IF u \in DOMAIN sessions
       THEN session_timeouts' = Put(session_timeouts, u, sNow)
       ELSE UNCHANGED session_timeouts
    /\ Returned("get_client", u, IF u \in DOMAIN sessions THEN sessions[u] ELSE 0,
                u \in DOMAIN sessions)
    /\ UNCHANGED <<clients, sessions, account_types, calls, reaper, sNow, tick>>

\* the value is_connected(u) returns, lines 156-157
is_connected(u) == u \in DOMAIN sessions /\ clients[sessions[u]].connected

\* _finalize_successful_login has reached lines 441-443 on client c since the
\* client was last cleared: its balance validation has passed
Validated(c) == clients[c].connected_email # NoEmail

\* a call made by a route, no call suspended: is_connected(u), lines 154-157
IsConnected(u) ==
    /\ UNCHANGED notSess
    /\ reaper.pc # "off"
    /\ Returned("is_connected", u, IF u \in DOMAIN sessions THEN sessions[u] ELSE 0,
                is_connected(u))
    /\ UNCHANGED <<clients, sessions, session_timeouts, account_types, calls, reaper,
                   sNow, tick>>

\* IQOptionClient.get_candles and get_available_pairs on client c
\* (iqoption_client.py:462-503 and 543-584), the manager being in st: a
\* connected client fetches, and the fetch (ok: it returned data) writes no
\* field; any other client first awaits self.connect() with the credentials
\* it was constructed with
FetchOn(k, call, st, c, ok) ==
    IF st.clients[c].connected /\ st.clients[c].api
    THEN /\ CommitMgr(st)
         /\ CallReturns(k, call, c, ok, "fetched")
    ELSE LET r == ConnectStart(st, c, NoEmail, NoAccount)
         IN  /\ r.outcome = "login"
             /\ CommitMgr(StartLogin(r.st, c))
             /\ CallAt(k, call, "ctor", c)

\* AutoScanner._get_pairs_to_scan and _scan_pair, auto_scanner.py:93-143: the
\* scanner fetches through self.client, the client get_client returned when
\* the scanner was started (routes.py:218 and 249)
AutoScannerFetch(k, c, ok) ==
    /\ UNCHANGED notSess
    /\ reaper.pc # "off"
    /\ FreeSlot(k)
    /\ c \in DOMAIN clients
    /\ FetchOn(k, NewCall("get_candles", clients[c].username, NoEmail, NoAccount),
               Mgr, c, ok)
    /\ UNCHANGED <<reaper, sNow, tick>>

\* get_user_candles(u) and get_user_pairs(u), lines 170-175 and 183-205,
\* called by IQOptionScanner (iqoption_scanner.py:142 and 185): get_client
\* writes the time, then the registered client fetches
GetUserCandles(k, u, ok) ==
    /\ UNCHANGED notSess
    /\ reaper.pc # "off"
    /\ FreeSlot(k)
    /\ LET call == NewCall("get_user_candles", u, NoEmail, NoAccount)
       IN  IF u \in DOMAIN sessions
           THEN FetchOn(k, call, [Mgr EXCEPT !.session_timeouts = Put(@, u, sNow)],
                        sessions[u], ok)
           ELSE /\ UNCHANGED <<clients, sessions, session_timeouts, account_types>>
                /\ CallReturns(k, call, 0, FALSE, "")
    /\ UNCHANGED <<reaper, sNow, tick>>

\* the orders in which a dict can hold the keys S
Orderings(S) ==
    {q \in [1..Cardinality(S) -> S] : \A i, j \in 1..Cardinality(S) : i # j => q[i] # q[j]}

\* the for loop aborted by the first failing disconnect
NextInactive_AbortOnFailure(idx, n, failed) == IF failed THEN n + 1 ELSE idx + 1

\* _cleanup_sessions, lines 232-234, with disconnect_user lines 123-125: the
\* for loop goes on to the next user whether the disconnect failed or not
NextInactive(idx, n, failed) == idx + 1

\* history: the reaper calls disconnect_user(u) at line 234; u is recorded
\* when, at that moment, it has a session whose last activity is not older
\* than the threshold of line 224 taken at that moment
NoteIssued(st, u) ==
    IF /\ u \in DOMAIN st.sessions
       /\ u \in DOMAIN st.session_timeouts
       /\ ~(st.session_timeouts[u] < sNow - TimeoutMinutes)
    THEN [st EXCEPT !.fresh = @ \cup {u}]
    ELSE st

RECURSIVE CleanupLoop(_, _, _)
\* _cleanup_sessions, lines 232-234: the for loop from position idx up to the
\* next suspension, or up to its end and the sleep of line 222
CleanupLoop(st, inactive_users, idx) ==
    IF idx > Len(inactive_users)
    THEN [st |-> st, pc |-> "sleep", idx |-> 0, client |-> 0]
    ELSE LET r == DisconnectUserStart(NoteIssued(st, inactive_users[idx]),
                                      inactive_users[idx])
         IN  IF r.pc = "disconnect_user"
             THEN [st |-> r.st, pc |-> "disconnect_user", idx |-> idx, client |-> r.client]
             ELSE CleanupLoop(r.st, inactive_users,
                              NextInactive(idx, Len(inactive_users), FALSE))

\* _cleanup_sessions, lines 222-234: the sleep is over; the inactive users are
\* listed (in the order of the dict, whatever it is) and the for loop starts
CleanupWakes ==
    /\ UNCHANGED notSess
    /\ reaper.pc = "sleep"
    /\ sNow >= reaper.wakeAt
    /\ LET timeout_threshold == sNow - TimeoutMinutes
           idle == {u \in DOMAIN session_timeouts :
                       session_timeouts[u] < timeout_threshold}
       IN  \E inactive_users \in Orderings(idle) :
             LET run == CleanupLoop([Mgr EXCEPT !.torn = {}, !.fresh = {}], inactive_users, 1)
             IN  /\ CommitMgr(run.st)
                 /\ reaper' = [pc |-> run.pc, wakeAt |-> sNow + CleanupSleep,
                               inactive_users |-> inactive_users,
                               idx |-> run.idx, client |-> run.client]
                 /\ tick' = [sessions |-> {<<u, sessions[u]>> : u \in idle \cap DOMAIN sessions},
                             torn |-> run.st.torn
                                        \cap {sessions[u] : u \in idle \cap DOMAIN sessions},
                             failed |-> 0,
                             done |-> run.pc = "sleep",
                             fresh |-> run.st.fresh]
    /\ NoReturn
    /\ UNCHANGED <<calls, sNow>>

\* _cleanup_sessions, lines 232-234 and 222, from the return of the close
\* awaited by disconnect_user (lines 115-125); raised: api.close raised
\* (iqoption_client.py:281-282)
CleanupDisconnected(raised) ==
    /\ UNCHANGED notSess
    /\ reaper.pc = "disconnect_user"
    /\ LET u == reaper.inactive_users[reaper.idx]
           failed == raised \/ u \notin DOMAIN sessions
           st == DisconnectUserResume(Mgr, u, reaper.client)
           run == CleanupLoop(st, reaper.inactive_users,
                              NextInactive(reaper.idx, Len(reaper.inactive_users), failed))
       IN  /\ CommitMgr(run.st)
           /\ reaper' = [reaper EXCEPT !.pc = run.pc, !.wakeAt = sNow + CleanupSleep,
                                       !.idx = run.idx, !.client = run.client]
           /\ tick' = [tick EXCEPT !.torn = run.st.torn \cap TickClients,
                                   !.failed = IF @ = 0 /\ failed THEN reaper.idx ELSE @,
                                   !.done = run.pc = "sleep",
                                   !.fresh = run.st.fresh]
    /\ NoReturn
    /\ UNCHANGED <<calls, sNow>>

\* a minute passes; the sleep of the reaper (line 222) is over when its
\* minute is: the clock does not pass that instant before the reaper has run
TickSession ==
    /\ UNCHANGED notSess
    /\ reaper.pc # "off"
    /\ sNow < MaxSessTime
    /\ reaper.pc = "sleep" => sNow < reaper.wakeAt
    /\ sNow' = sNow + 1
    /\ NoReturn
    /\ UNCHANGED <<clients, sessions, session_timeouts, account_types, calls, reaper, tick>>

NextSession ==
    \/ \E k \in 1..NumCalls, u \in Users : ConnectUserCall(k, u, DefaultEmail, NoAccount, MaxClients)
    \/ \E k \in 1..NumCalls, is_ok \in BOOLEAN : CheckConnectionReturns(k, is_ok)
    \/ \E k \in 1..NumCalls : ConnectUserDisconnected(k)
    \/ \E k \in 1..NumCalls, ok \in BOOLEAN : CtorReturns(k, ok)
    \/ \E k \in 1..NumCalls, outcome \in {"ok", "two_factor", "rejected"} :
          ApiConnectReturns(k, outcome)
    \/ \E k \in 1..NumCalls, ok \in BOOLEAN : ChangeBalanceReturns(k, ok)
    \/ \E k \in 1..NumCalls, outcome \in {"alive", "dead", "raised"} :
          CheckConnectReturns(k, outcome)
    \/ \E k \in 1..NumCalls, ok \in BOOLEAN : GetBalanceReturns(k, ok)
    \/ \E k \in 1..NumCalls : FinalizeDisconnected(k)
    \/ \E k \in 1..NumCalls, u \in Users : DisconnectUserCall(k, u)
    \/ \E k \in 1..NumCalls : DisconnectUserReturns(k)
    \/ \E u \in Users : GetClient(u)
    \/ CleanupWakes
    \/ \E raised \in BOOLEAN : CleanupDisconnected(raised)
    \/ TickSession

\* a manager observed from minute 0, the reaper asleep for another minute,
\* holding one validated session, last used 30 minutes ago, for each of the
\* first n users
InitManager(n) ==
    /\ clients = [i \in 1..n |-> ConnectedClient(UserSeq[i])]
    /\ sessions = [u \in {UserSeq[i] : i \in 1..n} |-> CHOOSE i \in 1..n : UserSeq[i] = u]
    /\ session_timeouts = [u \in {UserSeq[i] : i \in 1..n} |-> 0 - TimeoutMinutes]
    /\ account_types = [u \in {UserSeq[i] : i \in 1..n} |-> "PRACTICE"]
    /\ calls = [k \in 1..NumCalls |-> IdleCall]
    /\ reaper = [pc |-> "sleep", wakeAt |-> CleanupSleep, inactive_users |-> <<>>,
                 idx |-> 0, client |-> 0]
    /\ sNow = 0
    /\ tick = [sessions |-> {}, torn |-> {}, failed |-> 0, done |-> FALSE, fresh |-> {}]
    /\ InitScanner(0, 0)
    /\ sensitivity = "moderate"
    /\ GateIdle
    /\ RestIdle

\* the manager starts empty or with a session for every user
InitSession == ret = RetOff /\ \E n \in {0, Len(UserSeq)} : InitManager(n)

SpecSession == InitSession /\ [][NextSession]_vars

\* the user of the requests of SpecLogin
LoginUsers == {"ana"}
\* IQOptionClient objects constructed in one behaviour of SpecLogin
LoginClients == 2

\* the requests of one user, with every credential and account type, the
\* second factor included; the clock stands still and the reaper sleeps, so
\* that get_client and is_connected would change nothing. With
\* LoginClients clients the disconnect_user of connect_user line 75 never
\* has a transport to close (that path is in SpecSession)
NextLogin ==
    \/ \E k \in 1..NumCalls, u \in LoginUsers, email \in Emails,
          account_type \in {NoAccount, "real"} :
            ConnectUserCall(k, u, email, account_type, LoginClients)
    \/ \E k \in 1..NumCalls, is_ok \in BOOLEAN : CheckConnectionReturns(k, is_ok)
    \/ \E k \in 1..NumCalls, ok \in BOOLEAN : CtorReturns(k, ok)
    \/ \E k \in 1..NumCalls, outcome \in {"ok", "two_factor", "rejected"} :
          ApiConnectReturns(k, outcome)
    \/ \E k \in 1..NumCalls, ok \in BOOLEAN : ChangeBalanceReturns(k, ok)
    \/ \E k \in 1..NumCalls, outcome \in {"alive", "dead", "raised"} :
          CheckConnectReturns(k, outcome)
    \/ \E k \in 1..NumCalls, ok \in BOOLEAN : GetBalanceReturns(k, ok)
    \/ \E k \in 1..NumCalls : FinalizeDisconnected(k)
    \/ \E k \in 1..NumCalls, u \in LoginUsers : DisconnectUserCall(k, u)
    \/ \E k \in 1..NumCalls : DisconnectUserReturns(k)
    \/ \E k \in 1..NumCalls, u \in LoginUsers : CompleteTwoFactorCall(k, u)
    \/ \E k \in 1..NumCalls, outcome \in {"ok", "two_factor", "rejected", "raised"} :
          Connect2faReturns(k, outcome)
    \/ \E k \in 1..NumCalls : CompleteTwoFactorDisconnected(k)

\* the manager starts empty
InitLogin == ret = NoRet /\ InitManager(0)

SpecLogin == InitLogin /\ [][NextLogin]_vars

\* the read accessors next to the logins and disconnects of one user, the
\* clock running and the reaper asleep; as in SpecLogin, connect_user line 75
\* never has a transport to close
NextAccess ==
    \/ \E u \in LoginUsers : GetClient(u)
    \/ \E u \in LoginUsers : IsConnected(u)
    \/ \E k \in 1..NumCalls, u \in LoginUsers :
          ConnectUserCall(k, u, DefaultEmail, NoAccount, LoginClients)
    \/ \E k \in 1..NumCalls, is_ok \in BOOLEAN : CheckConnectionReturns(k, is_ok)
    \/ \E k \in 1..NumCalls, ok \in BOOLEAN : CtorReturns(k, ok)
    \/ \E k \in 1..NumCalls, outcome \in {"ok", "two_factor", "rejected"} :
          ApiConnectReturns(k, outcome)
    \/ \E k \in 1..NumCalls, ok \in BOOLEAN : ChangeBalanceReturns(k, ok)
    \/ \E k \in 1..NumCalls, outcome \in {"alive", "dead", "raised"} :
          CheckConnectReturns(k, outcome)
    \/ \E k \in 1..NumCalls, ok \in BOOLEAN : GetBalanceReturns(k, ok)
    \/ \E k \in 1..NumCalls : FinalizeDisconnected(k)
    \/ \E k \in 1..NumCalls, u \in LoginUsers : DisconnectUserCall(k, u)
    \/ \E k \in 1..NumCalls : DisconnectUserReturns(k)
    \/ TickSession

\* the manager starts empty or with a session for the user
InitAccess == ret = NoRet /\ \E n \in {0, Cardinality(LoginUsers)} : InitManager(n)

SpecAccess == InitAccess /\ [][NextAccess]_vars

\* the fetches of the scanners of one user who holds a validated session, next
\* to disconnect_user and the reaper, the clock running; no connect_user and
\* no complete_two_factor is called. The AutoScanner was started with the
\* client registered at the start, the first of clients
NextFetch ==
    \/ \E k \in 1..NumCalls, ok \in BOOLEAN : AutoScannerFetch(k, 1, ok)
    \/ \E k \in 1..NumCalls, u \in LoginUsers, ok \in BOOLEAN : GetUserCandles(k, u, ok)
    \/ \E k \in 1..NumCalls, ok \in BOOLEAN : CtorReturns(k, ok)
    \/ \E k \in 1..NumCalls, outcome \in {"ok", "two_factor", "rejected"} :
          ApiConnectReturns(k, outcome)
    \/ \E k \in 1..NumCalls, ok \in BOOLEAN : ChangeBalanceReturns(k, ok)
    \/ \E k \in 1..NumCalls, outcome \in {"alive", "dead", "raised"} :
          CheckConnectReturns(k, outcome)
    \/ \E k \in 1..NumCalls, ok \in BOOLEAN : GetBalanceReturns(k, ok)
    \/ \E k \in 1..NumCalls : FinalizeDisconnected(k)
    \/ \E k \in 1..NumCalls, u \in LoginUsers : DisconnectUserCall(k, u)
    \/ \E k \in 1..NumCalls : DisconnectUserReturns(k)
    \/ CleanupWakes
    \/ \E raised \in BOOLEAN : CleanupDisconnected(raised)
    \/ TickSession

SpecFetch ==
    /\ ret = NoRet
    /\ InitManager(Cardinality(LoginUsers))
    /\ [][NextFetch]_vars

-----------------------------------------------------------------------------
(* Functions that only compute. One call is observed: its arguments are    *)
(* drawn when the model starts, the call then returns its value.           *)

\* the most confluences generate_signal can collect (signal_generator.py:
\* 224-258 add at most six, line 116 one more)
MaxConfluences == 7
\* schemas.py:71  strength: int = Field(ge=1, le=5)
MaxStrength == 5

\* _calculate_confidence without its last line: the result is not capped
CalculateConfidence_NoCap(confluences, pattern_type, strength, sens) ==
    LET confidence == 50 + confluences * 5
                      + (IF pattern_type \in {"engulfing_bullish", "engulfing_bearish"}
                         THEN 15
                         ELSE IF pattern_type \in {"bos_bullish", "bos_bearish"}
                              THEN 10 ELSE 0)
                      + strength * 3
    IN  IF sens = "aggressive" /\ confidence < 55 THEN 55 ELSE confidence

\* SignalGenerator._calculate_confidence (signal_generator.py:262-287).
\* confluences is len(confluences); strength is sr_level.strength, 0 when
\* sr_level is None (line 281 then adds nothing). Every term is a whole
\* number, so the float arithmetic of the code is exact.
CalculateConfidence(confluences, pattern_type, strength, sens) ==
    LET base == 50 + confluences * 5
        with_pattern ==
            IF pattern_type \in {"engulfing_bullish", "engulfing_bearish"}
            THEN base + 15
            ELSE IF pattern_type \in {"bos_bullish", "bos_bearish"}
                 THEN base + 10
                 ELSE base
        with_level == IF strength # 0 THEN with_pattern + strength * 3 ELSE with_pattern
        confidence == IF sens = "aggressive" /\ with_level < 55 THEN 55 ELSE with_level
    IN  Min(confidence, 95)

\* signal_generator.py:119: the call of _calculate_confidence returns
CalculateConfidenceReturns ==
    /\ UNCHANGED <<coreVars, lifeVars>>
    /\ fnIn.fn = "_calculate_confidence"
    /\ ~fnOut.done
    /\ fnOut' = [done |-> TRUE,
                 value |-> CalculateConfidence(fnIn.confluences, fnIn.pattern_type,
                                               fnIn.strength, fnIn.sensitivity)]
    /\ UNCHANGED fnIn

\* the most instruments of one kind (open market, OTC) the broker offers
MaxBrokerPairs == 31

\* IQOptionClient.get_available_pairs (iqoption_client.py:537-586) on the
\* answer assets of get_all_open_time, flattened in the order of the three
\* markets: one entry per asset, is_otc from its name (line 571), is_active
\* from its open flag (line 570); OTC assets are skipped unless include_otc
GetAvailablePairs(assets, include_otc) ==
    SelectSeq(assets, LAMBDA p : include_otc \/ ~p.is_otc)

\* AutoScanner._get_pairs_to_scan (auto_scanner.py:93-123); ScanConfig has
\* no attribute MAX_CONCURRENT_PAIRS (schemas.py:93-102), so max_pairs is 30
GetPairsToScan(config, assets) ==
    IF config.mode = "manual" /\ config.symbols # {}
    THEN SelectSeq(GetAvailablePairs(assets, TRUE), LAMBDA p : p.symbol \in config.symbols)
    ELSE LET all == GetAvailablePairs(assets, ~config.only_open_market)
             filtered == IF config.only_otc
                         THEN SelectSeq(all, LAMBDA p : p.is_otc)
                         ELSE IF config.only_open_market
                              THEN SelectSeq(all, LAMBDA p : ~p.is_otc)
                              ELSE all
         IN  SubSeq(filtered, 1, CappedPairs(Len(filtered)))

\* IQOptionScanner._get_otc_pairs (iqoption_scanner.py:139-164), the user
\* holding a client (session_manager.py:170-174)
GetOtcPairs(config, assets) ==
    LET active_pairs == SelectSeq(GetAvailablePairs(assets, TRUE), LAMBDA p : p.is_active)
        by_market == IF config.only_otc
                     THEN SelectSeq(active_pairs, LAMBDA p : p.is_otc)
                     ELSE IF config.only_open_market
                          THEN SelectSeq(active_pairs, LAMBDA p : ~p.is_otc)
                          ELSE active_pairs
    IN  IF config.symbols # {}
        THEN SelectSeq(by_market, LAMBDA p : p.symbol \in config.symbols)
        ELSE by_market

\* auto_scanner.py:46: the call of _get_pairs_to_scan returns
GetPairsToScanReturns ==
    /\ UNCHANGED <<coreVars, lifeVars>>
    /\ fnIn.fn = "_get_pairs_to_scan"
    /\ ~fnOut.done
    /\ fnOut' = [done |-> TRUE, value |-> GetPairsToScan(fnIn.config, fnIn.assets)]
    /\ UNCHANGED fnIn

\* iqoption_scanner.py:66: the call of _get_otc_pairs returns
GetOtcPairsReturns ==
    /\ UNCHANGED <<coreVars, lifeVars>>
    /\ fnIn.fn = "_get_otc_pairs"
    /\ ~fnOut.done
    /\ fnOut' = [done |-> TRUE, value |-> GetOtcPairs(fnIn.config, fnIn.assets)]
    /\ UNCHANGED fnIn

\* seconds of the clock from which generation instants are drawn
MaxNow == 125

\* the entry is the instant rounded up to a minute, which is the instant
\* itself on a full minute
GenerateSignalTimes_RoundUp(instant, timeframe, sens) ==
    LET next_minute == ((instant + 59) \div 60) * 60
        entry_buffer == IF sens = "aggressive" THEN 1 ELSE 0
        entry_time == next_minute + entry_buffer * 60
        expiry_minutes == IF timeframe > 2 THEN timeframe ELSE 2
    IN  [timestamp |-> instant, entry_time |-> entry_time,
         expiry_time |-> entry_time + expiry_minutes * 60,
         expiry_minutes |-> expiry_minutes]

\* generate_signal, signal_generator.py:121-146: the times of the signal
\* generated at instant (now, line 122), in seconds (the microseconds that replace() drops with
\* the seconds change no comparison)
GenerateSignalTimes(instant, timeframe, sens) ==
    LET next_minute == ((instant + 60) \div 60) * 60
        entry_buffer == IF sens = "aggressive" THEN 1 ELSE 0
        entry_time == next_minute + entry_buffer * 60
        expiry_minutes == IF timeframe > 2 THEN timeframe ELSE 2
    IN  [timestamp |-> instant, entry_time |-> entry_time,
         expiry_time |-> entry_time + expiry_minutes * 60,
         expiry_minutes |-> expiry_minutes]

\* generate_signal returns a signal
GenerateSignalReturns ==
    /\ UNCHANGED <<coreVars, lifeVars>>
    /\ fnIn.fn = "generate_signal"
    /\ ~fnOut.done
    /\ fnOut' = [done |-> TRUE,
                 value |-> GenerateSignalTimes(fnIn.now, fnIn.timeframe,
                                               fnIn.sensitivity)]
    /\ UNCHANGED fnIn

\* detect_patterns, pattern_detector.py:51-254, on the series df of candles
\* [open, high, low, close] with whole prices: the patterns of the last three
\* candles in the order pin bar, engulfing, inside bar, doji, then a break of
\* structure of the last candle against the four before it. The thresholds of
\* lines 26-48 are compared in tenths and hundredths, the 0.1% buffers of
\* lines 235 and 247 in thousandths
DetectPatterns(df, sens) ==
    LET pin_bar_ratio == CASE sens = "conservative" -> 30
                           [] sens = "aggressive" -> 20
                           [] OTHER -> 25
        pin_bar_wick == CASE sens = "conservative" -> 66
                          [] sens = "aggressive" -> 55
                          [] OTHER -> 60
        engulfing_body == CASE sens = "conservative" -> 12
                            [] sens = "aggressive" -> 10
                            [] OTHER -> 11
        inside_bar_ratio == CASE sens = "conservative" -> 80
                              [] sens = "aggressive" -> 90
                              [] OTHER -> 85
        doji_body == CASE sens = "conservative" -> 10
                       [] sens = "aggressive" -> 20
                       [] OTHER -> 15
        Abs(x) == IF x < 0 THEN 0 - x ELSE x
        Hi(a, b) == IF a > b THEN a ELSE b
        Found(t, i) == <<[pattern_type |-> t, candle_index |-> i]>>
        body(i) == Abs(df[i].close - df[i].open)
        total_range(i) == df[i].high - df[i].low
        upper_wick(i) == df[i].high - Hi(df[i].open, df[i].close)
        lower_wick(i) == Min(df[i].open, df[i].close) - df[i].low
        \* lines 99-131
        pin(i) ==
            IF total_range(i) = 0 THEN <<>>
            ELSE IF /\ lower_wick(i) * 10 > body(i) * pin_bar_ratio
                    /\ lower_wick(i) * 100 >= total_range(i) * pin_bar_wick
                 THEN Found("pin_bar", i)
            ELSE IF /\ upper_wick(i) * 10 > body(i) * pin_bar_ratio
                    /\ upper_wick(i) * 100 >= total_range(i) * pin_bar_wick
                 THEN Found("pin_bar", i)
            ELSE <<>>
        \* lines 133-173
        engulf(i) ==
            IF body(i - 1) = 0 THEN <<>>
            ELSE IF /\ df[i].close > df[i].open
                    /\ df[i - 1].close < df[i - 1].open
                    /\ df[i].open <= df[i - 1].close
                    /\ df[i].close > df[i - 1].open
                    /\ body(i) * 10 > body(i - 1) * engulfing_body
                 THEN Found("engulfing_bullish", i)
            ELSE IF /\ df[i].close < df[i].open
                    /\ df[i - 1].close > df[i - 1].open
                    /\ df[i].open >= df[i - 1].close
                    /\ df[i].close < df[i - 1].open
                    /\ body(i) * 10 > body(i - 1) * engulfing_body
                 THEN Found("engulfing_bearish", i)
            ELSE <<>>
        \* lines 175-197
        inside(i) ==
            IF /\ df[i].high <= df[i - 1].high
               /\ df[i].low >= df[i - 1].low
               /\ total_range(i - 1) > 0
               /\ total_range(i) * 100 <= total_range(i - 1) * inside_bar_ratio
            THEN Found("inside_bar", i)
            ELSE <<>>
        \* lines 199-218
        doji(i) ==
            IF total_range(i) # 0 /\ body(i) * 100 <= total_range(i) * doji_body
            THEN Found("doji", i)
            ELSE <<>>
        at(i) == IF i < 2 THEN <<>> ELSE pin(i) \o engulf(i) \o inside(i) \o doji(i)
        n == Len(df)
        \* lines 220-254
        prev_high == CHOOSE h \in {df[i].high : i \in (n - 4)..(n - 1)} :
                        \A i \in (n - 4)..(n - 1) : df[i].high <= h
        prev_low == CHOOSE l \in {df[i].low : i \in (n - 4)..(n - 1)} :
                       \A i \in (n - 4)..(n - 1) : df[i].low >= l
        bos == IF n < 5 THEN <<>>
               ELSE IF df[n].high * 1000 > prev_high * 1001
                    THEN Found("bos_bullish", n)
               ELSE IF df[n].low * 1000 < prev_low * 999
                    THEN Found("bos_bearish", n)
               ELSE <<>>
    IN  IF n < 3 THEN <<>>
        ELSE at(n - 2) \o at(n - 1) \o at(n) \o bos

\* _determine_direction, signal_generator.py:150-183; the RSI and the trend
\* of the series are those TechnicalIndicators computes from all its candles
DetermineDirection(pattern_type, rsi_below_50, trend) ==
    CASE pattern_type \in {"pin_bar", "engulfing_bullish", "bos_bullish"} -> "CALL"
      [] pattern_type \in {"engulfing_bearish", "bos_bearish"} -> "PUT"
      [] pattern_type = "doji" -> IF rsi_below_50 THEN "CALL" ELSE "PUT"
      [] pattern_type = "inside_bar" -> IF trend = "bearish" THEN "PUT" ELSE "CALL"
      [] OTHER -> "CALL"

\* generate_signal, signal_generator.py:57-102, on a series of enough candles:
\* the patterns are detected and the direction is that of the last of them;
\* without a pattern the aggressive mode takes the momentum of the last
\* candle, the other modes return no signal
DetectPatternsReturns ==
    /\ UNCHANGED <<coreVars, lifeVars>>
    /\ fnIn.fn = "detect_patterns"
    /\ ~fnOut.done
    /\ LET df == fnIn.df
           detected == DetectPatterns(df, fnIn.sensitivity)
           patterns ==
               IF detected = <<>> /\ fnIn.sensitivity = "aggressive"
               THEN <<[pattern_type |-> IF df[Len(df)].close >= df[Len(df)].open
                                        THEN "bos_bullish" ELSE "bos_bearish",
                       candle_index |-> Len(df)]>>
               ELSE detected
       IN  fnOut' = [done |-> TRUE,
                     patterns |-> detected,
                     value |-> IF patterns = <<>> THEN "none"
                               ELSE DetermineDirection(
                                        patterns[Len(patterns)].pattern_type,
                                        fnIn.rsi_below_50, fnIn.trend)]
    /\ UNCHANGED fnIn

NextFn ==
    \/ CalculateConfidenceReturns
    \/ DetectPatternsReturns
    \/ GenerateSignalReturns
    \/ GetPairsToScanReturns
    \/ GetOtcPairsReturns

InitFn ==
    /\ \/ fnIn \in [fn : {"_calculate_confidence"},
                    confluences : 0..MaxConfluences,
                    \* schemas.py:54-62
                    pattern_type : {"pin_bar", "engulfing_bullish", "engulfing_bearish",
                                    "inside_bar", "doji", "bos_bullish", "bos_bearish"},
                    strength : 0..MaxStrength,
                    sensitivity : {"conservative", "moderate", "aggressive"}]
       \* a generation instant and a configuration (schemas.py:96, 99)
       \/ fnIn \in [fn : {"generate_signal"},
                    now : 0..MaxNow,
                    timeframe : {1, 2, 5, 60},
                    sensitivity : {"conservative", "moderate", "aggressive"}]
       \* the last five candles of a series: four alike, or three alike and a
       \* wide one, then a candle with a lower wick; the RSI and the trend of
       \* the whole series
       \/ \E wide \in BOOLEAN, open \in {102, 106, 107}, close \in {106, 107, 108, 109},
             high \in {109, 110, 112}, low \in {90, 100} :
             fnIn \in [fn : {"detect_patterns"},
                       df : {<<[open |-> 102, high |-> 110, low |-> 100, close |-> 108],
                               [open |-> 102, high |-> 110, low |-> 100, close |-> 108],
                               [open |-> 102, high |-> 110, low |-> 100, close |-> 108],
                               IF wide
                               THEN [open |-> 100, high |-> 120, low |-> 80, close |-> 110]
                               ELSE [open |-> 102, high |-> 110, low |-> 100, close |-> 108],
                               [open |-> open, high |-> high, low |-> low,
                                close |-> close]>>},
                       sensitivity : {"conservative", "moderate", "aggressive"},
                       rsi_below_50 : BOOLEAN,
                       trend : {"bullish", "bearish", "neutral"}]
       \* a scanner configuration (schemas.py:93-102; symbols is empty for
       \* None) and the broker's answer: n_open open-market assets followed
       \* by n_otc OTC assets, all open but possibly the last
       \/ \E n_open, n_otc \in {0, 1, MaxBrokerPairs}, last_closed \in BOOLEAN :
             fnIn \in [fn : {"_get_pairs_to_scan", "_get_otc_pairs"},
                       config : [mode : {"manual", "auto"},
                                 symbols : {{}, {1}, 1..(n_open + n_otc)},
                                 only_otc : BOOLEAN,
                                 only_open_market : BOOLEAN],
                       assets : {[i \in 1..(n_open + n_otc) |->
                                     [symbol |-> i,
                                      is_otc |-> i > n_open,
                                      is_active |-> ~(last_closed /\ i = n_open + n_otc)]]}]
    /\ fnOut = [done |-> FALSE]
    /\ lKind = "none"
    /\ scanners = <<>>
    /\ scanner_instances = 0
    /\ scanner_tasks = 0
    /\ starts = <<>>
    /\ session = "none"
    /\ resp = [op |-> "none", status |-> 0, reconnected |-> FALSE]
    /\ InitScanner(0, 0)
    /\ sensitivity = "moderate"
    /\ GateIdle
    /\ SessIdle

SpecFn == InitFn /\ [][NextFn]_vars

-----------------------------------------------------------------------------
(* The scanners of one user and the requests that start and stop them:     *)
(* start_scanner / stop_scanner (app/api/routes.py:205-281), which run an  *)
(* AutoScanner, and start_iqoption_scanner / stop_iqoption_scanner         *)
(* (app/api/iqoption_routes.py:290-377), which run an IQOptionScanner.     *)
(* A scanner is followed from its construction to the end of its           *)
(* start_scanning task, one pass of the loop being one step.               *)

\* scanner objects the user gets in one behaviour
MaxScanners == 3
\* start requests of the user that are in progress at once
NumStarts == 2

\* task.cancel() unless the task is done (routes.py:238-239, 276-277;
\* iqoption_scanner.py:130-131); i is 0 when there is no task
CancelTask(ss, i) ==
    IF i # 0 /\ ss[i].pc \notin {"done", "closed"}
    THEN [ss EXCEPT ![i].cancel = TRUE]
    ELSE ss

\* start_scanner from line 231 on (slept: from line 237 on, the sleep of line
\* 235 being over): a running scanner is told to stop and the handler sleeps;
\* then the registered task is cancelled and a new scanner and its task are
\* created and registered, a callback on the task being armed (line 253)
StartScannerFrom(h, slept, reconnected) ==
    IF ~slept /\ scanner_instances # 0 /\ scanners[scanner_instances].is_running
    THEN /\ scanners' = [scanners EXCEPT ![scanner_instances].is_running = FALSE]
         /\ starts' = [starts EXCEPT ![h] = [pc |-> "sleep", reconnected |-> reconnected]]
         /\ resp' = [op |-> "start", status |-> 0, reconnected |-> reconnected]
         /\ UNCHANGED <<scanner_instances, scanner_tasks>>
    ELSE /\ Len(scanners) < MaxScanners
         /\ scanners' = Append(IF scanner_instances # 0
                               THEN CancelTask(scanners, scanner_tasks)
                               ELSE scanners,
                               [is_running |-> FALSE, pc |-> "created", cancel |-> FALSE])
         /\ scanner_instances' = Len(scanners) + 1
         /\ scanner_tasks' = Len(scanners) + 1
         /\ starts' = [starts EXCEPT ![h] = [pc |-> "idle", reconnected |-> FALSE]]
         /\ resp' = [op |-> "start", status |-> 200, reconnected |-> reconnected]

\* routes.py:216-229: a start request arrives. Without a client it is refused;
\* with a client that is not connected the handler awaits client.connect()
StartScanner(h) ==
    /\ UNCHANGED <<coreVars, fnIn, fnOut>>
    /\ lKind = "auto"
    /\ starts[h].pc = "idle"
    /\ CASE session = "none" ->
              /\ resp' = [op |-> "start", status |-> 400, reconnected |-> FALSE]
              /\ UNCHANGED <<scanners, scanner_instances, scanner_tasks, starts>>
         [] session = "down" ->
              /\ starts' = [starts EXCEPT ![h] = [pc |-> "connect", reconnected |-> TRUE]]
              /\ resp' = [op |-> "start", status |-> 0, reconnected |-> TRUE]
              /\ UNCHANGED <<scanners, scanner_instances, scanner_tasks>>
         [] OTHER -> StartScannerFrom(h, FALSE, FALSE)
    /\ UNCHANGED <<lKind, session>>

\* routes.py:224-229: client.connect() returns; the client is connected again
\* or the request is refused
StartScannerConnected(h, connected) ==
    /\ UNCHANGED <<coreVars, fnIn, fnOut>>
    /\ lKind = "auto"
    /\ starts[h].pc = "connect"
    /\ IF connected
       THEN /\ session' = IF session = "down" THEN "up" ELSE session
            /\ StartScannerFrom(h, FALSE, TRUE)
       ELSE /\ starts' = [starts EXCEPT ![h] = [pc |-> "idle", reconnected |-> FALSE]]
            /\ resp' = [op |-> "start", status |-> 400, reconnected |-> TRUE]
            /\ UNCHANGED <<scanners, scanner_instances, scanner_tasks, session>>
    /\ UNCHANGED lKind

\* routes.py:235-260: the sleep of 0.1 s is over
StartScannerSlept(h) ==
    /\ UNCHANGED <<coreVars, fnIn, fnOut>>
    /\ lKind = "auto"
    /\ starts[h].pc = "sleep"
    /\ StartScannerFrom(h, TRUE, starts[h].reconnected)
    /\ UNCHANGED <<lKind, session>>

\* stop_scanner (routes.py:262-281), which has no await
StopScanner ==
    /\ UNCHANGED <<coreVars, fnIn, fnOut>>
    /\ lKind = "auto"
    /\ IF scanner_instances = 0 \/ ~scanners[scanner_instances].is_running
       THEN /\ resp' = [op |-> "stop", status |-> 400, reconnected |-> FALSE]
            /\ UNCHANGED <<scanners, scanner_tasks>>
       ELSE /\ scanners' = CancelTask([scanners EXCEPT ![scanner_instances].is_running = FALSE],
                                      scanner_tasks)
            /\ scanner_tasks' = 0
            /\ resp' = [op |-> "stop", status |-> 200, reconnected |-> FALSE]
    /\ UNCHANGED <<lKind, scanner_instances, starts, session>>

\* start_iqoption_scanner (iqoption_routes.py:290-346), which has no await;
\* stop_scanning of the scanner it replaces is iqoption_scanner.py:125-137
StartIqoptionScanner ==
    /\ UNCHANGED <<coreVars, fnIn, fnOut>>
    /\ lKind = "iq"
    /\ CASE session # "up" ->
              /\ resp' = [op |-> "start", status |-> 401, reconnected |-> FALSE]
              /\ UNCHANGED <<scanners, scanner_instances>>
         [] session = "up" /\ scanner_instances # 0
                           /\ scanners[scanner_instances].is_running ->
              /\ resp' = [op |-> "start", status |-> 400, reconnected |-> FALSE]
              /\ UNCHANGED <<scanners, scanner_instances>>
         [] OTHER ->
              /\ Len(scanners) < MaxScanners
              /\ scanners' = Append(CancelTask(scanners, scanner_instances),
                                    [is_running |-> FALSE, pc |-> "created", cancel |-> FALSE])
              /\ scanner_instances' = Len(scanners) + 1
              /\ resp' = [op |-> "start", status |-> 200, reconnected |-> FALSE]
    /\ UNCHANGED <<lKind, scanner_tasks, starts, session>>

\* stop_iqoption_scanner (iqoption_routes.py:349-377) up to its await, after
\* which it only returns; stop_scanning is iqoption_scanner.py:125-137
StopIqoptionScanner ==
    /\ UNCHANGED <<coreVars, fnIn, fnOut>>
    /\ lKind = "iq"
    /\ IF scanner_instances = 0
       THEN /\ resp' = [op |-> "stop", status |-> 400, reconnected |-> FALSE]
            /\ UNCHANGED scanners
       ELSE /\ scanners' = CancelTask([scanners EXCEPT ![scanner_instances].is_running = FALSE],
                                      scanner_instances)
            /\ resp' = [op |-> "stop", status |-> 200, reconnected |-> FALSE]
    /\ UNCHANGED <<lKind, scanner_instances, scanner_tasks, starts, session>>

\* The first step of the task of scanner i. AutoScanner.start_scanning
\* (auto_scanner.py:42-46) sets is_running and resolves its instruments;
\* IQOptionScanner.start_scanning (iqoption_scanner.py:36-66) gives up when
\* the user is not connected
TaskStarts(i) ==
    /\ UNCHANGED <<coreVars, fnIn, fnOut>>
    /\ scanners[i].pc = "created"
    /\ ~scanners[i].cancel
    /\ scanners' = [scanners EXCEPT ![i] =
                      IF lKind = "iq" /\ session # "up"
                      THEN [@ EXCEPT !.is_running = FALSE, !.pc = "done"]
                      ELSE [@ EXCEPT !.is_running = TRUE, !.pc = "pairs"]]
    /\ resp' = [op |-> "none", status |-> 0, reconnected |-> FALSE]
    /\ UNCHANGED <<lKind, scanner_instances, scanner_tasks, starts, session>>

\* The instruments are resolved. AutoScanner (auto_scanner.py:46-55) sleeps
\* 8 s on an empty list and starts the fetches otherwise; IQOptionScanner
\* (iqoption_scanner.py:66-97) ends on an empty list, and otherwise enters
\* its loop, where it ends when the user is no longer connected
PairsResolved(i, empty) ==
    /\ UNCHANGED <<coreVars, fnIn, fnOut>>
    /\ scanners[i].pc = "pairs"
    /\ ~scanners[i].cancel
    /\ scanners' = [scanners EXCEPT ![i] =
                      IF lKind = "auto"
                      THEN [@ EXCEPT !.pc = IF empty THEN "sleep" ELSE "scan"]
                      ELSE IF empty \/ session # "up"
                           THEN [@ EXCEPT !.is_running = FALSE, !.pc = "done"]
                           ELSE [@ EXCEPT !.pc = "scan"]]
    /\ resp' = [op |-> IF empty THEN "empty" ELSE "none", status |-> 0, reconnected |-> FALSE]
    /\ UNCHANGED <<lKind, scanner_instances, scanner_tasks, starts, session>>

\* The fetches of the pass have returned and its signals are handled; the
\* loop sleeps (auto_scanner.py:55-82, iqoption_scanner.py:87-114)
ScanReturns(i) ==
    /\ UNCHANGED <<coreVars, fnIn, fnOut>>
    /\ scanners[i].pc = "scan"
    /\ ~scanners[i].cancel
    /\ scanners' = [scanners EXCEPT ![i].pc = "sleep"]
    /\ resp' = [op |-> "none", status |-> 0, reconnected |-> FALSE]
    /\ UNCHANGED <<lKind, scanner_instances, scanner_tasks, starts, session>>

\* The sleep is over and the loop condition is evaluated. AutoScanner
\* (auto_scanner.py:44-46) resolves its instruments again unless it was
\* stopped; IQOptionScanner (iqoption_scanner.py:75-97) scans the same
\* instruments again unless the user is no longer connected
NextCycle(i) ==
    /\ UNCHANGED <<coreVars, fnIn, fnOut>>
    /\ scanners[i].pc = "sleep"
    /\ ~scanners[i].cancel
    /\ scanners' = [scanners EXCEPT ![i] =
                      IF lKind = "auto"
                      THEN [@ EXCEPT !.pc = IF scanners[i].is_running THEN "pairs" ELSE "done"]
                      ELSE IF ~scanners[i].is_running \/ session # "up"
                           THEN [@ EXCEPT !.is_running = FALSE, !.pc = "done"]
                           ELSE [@ EXCEPT !.pc = "scan"]]
    /\ resp' = [op |-> "none", status |-> 0, reconnected |-> FALSE]
    /\ UNCHANGED <<lKind, scanner_instances, scanner_tasks, starts, session>>

\* The cancelled task runs again: CancelledError is raised at its await,
\* which no handler of AutoScanner catches (auto_scanner.py:84) and which
\* ends the loop of IQOptionScanner (iqoption_scanner.py:116-118)
TaskCancelled(i) ==
    /\ UNCHANGED <<coreVars, fnIn, fnOut>>
    /\ scanners[i].cancel
    /\ scanners[i].pc \notin {"done", "closed"}
    /\ scanners' = [scanners EXCEPT ![i].pc = "done"]
    /\ resp' = [op |-> "none", status |-> 0, reconnected |-> FALSE]
    /\ UNCHANGED <<lKind, scanner_instances, scanner_tasks, starts, session>>

\* routes.py:253: the callback of the finished task of scanner i runs and
\* pops the user's entry of _scanner_tasks
DoneCallback(i) ==
    /\ UNCHANGED <<coreVars, fnIn, fnOut>>
    /\ lKind = "auto"
    /\ scanners[i].pc = "done"
    /\ scanners' = [scanners EXCEPT ![i].pc = "closed"]
    /\ scanner_tasks' = 0
    /\ resp' = [op |-> "none", status |-> 0, reconnected |-> FALSE]
    /\ UNCHANGED <<lKind, scanner_instances, starts, session>>

\* The session of the user changes (login, logout, reaper, lost connection):
\* "none" no client is registered, "down" the registered client is not
\* connected, "up" it is (session_manager.py:147-157)
SessionChanges(s) ==
    /\ UNCHANGED <<coreVars, fnIn, fnOut>>
    /\ s # session
    /\ session' = s
    /\ resp' = [op |-> "none", status |-> 0, reconnected |-> FALSE]
    /\ UNCHANGED <<lKind, scanners, scanner_instances, scanner_tasks, starts>>

NextLife ==
    \/ \E h \in 1..NumStarts : StartScanner(h)
    \/ \E h \in 1..NumStarts, connected \in BOOLEAN : StartScannerConnected(h, connected)
    \/ \E h \in 1..NumStarts : StartScannerSlept(h)
    \/ StopScanner
    \/ StartIqoptionScanner
    \/ StopIqoptionScanner
    \/ \E i \in DOMAIN scanners : TaskStarts(i)
    \/ \E i \in DOMAIN scanners, empty \in BOOLEAN : PairsResolved(i, empty)
    \/ \E i \in DOMAIN scanners : ScanReturns(i)
    \/ \E i \in DOMAIN scanners : NextCycle(i)
    \/ \E i \in DOMAIN scanners : TaskCancelled(i)
    \/ \E i \in DOMAIN scanners : DoneCallback(i)
    \/ \E s \in {"none", "down", "up"} : SessionChanges(s)

\* no scanner was ever started for the user
InitLife ==
    /\ lKind \in {"auto", "iq"}
    /\ scanners = <<>>
    /\ scanner_instances = 0
    /\ scanner_tasks = 0
    /\ starts = [h \in 1..NumStarts |-> [pc |-> "idle", reconnected |-> FALSE]]
    /\ session \in {"none", "down", "up"}
    /\ resp = [op |-> "none", status |-> 0, reconnected |-> FALSE]
    /\ fnIn = [fn |-> "none"]
    /\ fnOut = [done |-> FALSE]
    /\ InitScanner(0, 0)
    /\ sensitivity = "moderate"
    /\ GateIdle
    /\ SessIdle

SpecLife == InitLife /\ [][NextLife]_vars

-----------------------------------------------------------------------------
(* Properties of the session manager                                       *)

\* C1: for any interleaving of two connect_user calls for the same username,
\* no two distinct clients created for that username are both connected; here
\* in the weaker form that looks only at states where no call for the
\* username is still in progress and counts a client as connected only while
\* it also holds its transport (api).
C1_OneConnectedClientPerUser ==
    \A c1, c2 \in DOMAIN clients :
        (/\ c1 # c2
         /\ clients[c1].username = clients[c2].username
         /\ \A k \in 1..NumCalls : calls[k].username # clients[c1].username)
        => ~(/\ clients[c1].connected /\ clients[c1].api
             /\ clients[c2].connected /\ clients[c2].api)

\* C10: when a reaper tick is over, every session that was registered and
\* older than 30 minutes when the tick began has been disconnected and is no
\* longer in the registry, whether or not another disconnect of the tick failed.
C10_TickDisconnectsEveryIdleSession ==
    tick.done =>
        \A uc \in tick.sessions :
            /\ uc[2] \in tick.torn
            /\ ~(uc[1] \in DOMAIN sessions /\ sessions[uc[1]] = uc[2])

\* a tick that found two idle sessions is over and its first disconnect failed
C10_Witness ==
    /\ tick.done
    /\ Cardinality(tick.sessions) = 2
    /\ tick.failed = 1

\* C11: the reaper never issues the disconnect of a session whose last
\* activity lies within the 30-minute window at the moment of the issue, even
\* when the session was touched (get_client) or re-created (connect_user)
\* after the list of inactive users was computed
C11_ReaperSparesActiveSessions == tick.fresh = {}

C13_ConnectedOnlyAfterValidation ==
    /\ \A c \in 1..Len(clients) : clients[c].connected => Validated(c)
    /\ \A u \in LoginUsers : is_connected(u) => Validated(sessions[u])

\* C14: IQOptionClient.connect on a client that is connected (transport open,
\* login validated, no challenge pending), called with the credentials and the
\* account kind it already has (or with none), returns True at once, opens no
\* transport and changes nothing; calling it again gives the same
C14_ReconnectIsNoOp ==
    \A c \in 1..Len(clients) :
        clients[c].connected /\ clients[c].api /\ Validated(c)
        /\ ~clients[c].awaiting_two_factor =>
            \A email \in {NoEmail} \cup {e \in Emails : e = clients[c].connected_email},
              account_type \in {NoAccount, "real", "REAL", "practice", "PRACTICE"} :
                (account_type = NoAccount
                 \/ NormalizeAccountType(account_type) = clients[c].account_type) =>
                    LET r == ConnectStart(Mgr, c, email, account_type)
                    IN  /\ r = [st |-> Mgr, outcome |-> "connected"]
                        /\ ConnectStart(r.st, c, email, account_type) = r

\* connect_user has called client.connect(account_type=...) at line 69 on a
\* validated session, and connect returned True at line 114
C14_Witness ==
    /\ ret.op = "connect_user"
    /\ ret.login = "already"
    /\ Validated(ret.client)
    /\ clients[ret.client].connected /\ clients[ret.client].api

\* C15: connect_user never returns success while the session registered for
\* the user is authenticated with credentials other than the ones the call
\* supplied
C15_NoSuccessWithOldCredentials ==
    ret.op = "connect_user" /\ ret.success /\ ret.username \in DOMAIN sessions =>
        LET c == sessions[ret.username]
        IN  Validated(c) => clients[c].connected_email = ret.email

\* C16: a connect_user that finds the user's client waiting for a
\* verification code returns failure with the pending message, constructs no
\* client, registers nothing and leaves the state of the pending client as it
\* was
C16_PendingChallengeUntouched ==
    [][ret'.op = "connect_user" /\ ret'.login = "pending" =>
           /\ ~ret'.success
           /\ ret'.message = "challenge"
           /\ sessions' = sessions
           /\ clients' = clients]_vars

\* C17: complete_two_factor for a user who has no session, or whose client is
\* not waiting for a verification code, returns failure and leaves the
\* clients and the manager's maps as they were
C17_NoChallengeNoChange ==
    [][ret'.op = "complete_two_factor" /\ ret'.message \in {"not_found", "no_challenge"} =>
           /\ ~ret'.success
           /\ clients' = clients
           /\ sessions' = sessions
           /\ session_timeouts' = session_timeouts
           /\ account_types' = account_types]_vars

\* C18: when complete_two_factor returns failure, whatever the cause, either
\* the user's client is still waiting for a verification code or the user
\* has no session left
C18_FailureKeepsChallengeOrClears ==
    ret.op = "complete_two_factor" /\ ~ret.success =>
        \/ ret.username \notin DOMAIN sessions
        \/ clients[sessions[ret.username]].awaiting_two_factor

\* C19: disconnect_user(u) for a user who has a session tears down the
\* client it found registered, removes u from sessions, session_timeouts and
\* account_types and returns True; for a user who has no session (never had,
\* or removed since, also while the call was suspended) it returns False and
\* changes none of the maps, and no client when it did not suspend
C19_DisconnectRemovesAndIsIdempotent ==
    [][ret'.op = "disconnect_user" =>
           LET u == ret'.username
           IN  /\ u \notin DOMAIN sessions'
               /\ ret'.client # 0 =>
                      /\ ~clients'[ret'.client].connected
                      /\ ~clients'[ret'.client].api
               /\ u \in DOMAIN sessions =>
                      /\ ret'.success
                      /\ u \notin DOMAIN session_timeouts'
                      /\ u \notin DOMAIN account_types'
                      /\ calls' = calls =>
                             /\ ~clients'[sessions[u]].connected
                             /\ ~clients'[sessions[u]].api
               /\ u \notin DOMAIN sessions =>
                      /\ ~ret'.success
                      /\ sessions' = sessions
                      /\ session_timeouts' = session_timeouts
                      /\ account_types' = account_types
                      /\ calls' = calls => clients' = clients]_vars

\* a disconnect_user that closed the transport of a registered client has
\* returned True
C19_Witness ==
    /\ ret.op = "disconnect_user"
    /\ ret.success
    /\ ret.client # 0

\* C20: get_client(u) sets session_timeouts[u] to the current time when u
\* has a session and changes nothing else; without a session it changes
\* nothing and creates no entry; is_connected(u) changes neither the maps nor
\* any client
C20_AccessorsOnlyRefresh ==
    [][/\ ret'.op = "get_client" =>
            /\ session_timeouts' = IF ret'.username \in DOMAIN sessions
                                   THEN Put(session_timeouts, ret'.username, sNow)
                                   ELSE session_timeouts
            /\ UNCHANGED <<clients, sessions, account_types>>
       /\ ret'.op = "is_connected" =>
            UNCHANGED <<clients, sessions, session_timeouts, account_types>>]_vars

\* get_client has refreshed the entry of a session that had been idle
C20_Witness ==
    /\ ret.op = "get_client"
    /\ ret.success
    /\ sNow > 0
    /\ session_timeouts[ret.username] = sNow








-----------------------------------------------------------------------------
(* Properties of the AutoScanner history                                   *)

\* every signal accepted so far, while clear_old_signals has not been called
AllAccepted == Prefill(prefilled) \o accepted

HistoryIds == {signal_history[i].signal_id : i \in DOMAIN signal_history}

\* the last entry of signal_history for symbol s (None when there is none)
LastFor(s) ==
    LET idx == {i \in DOMAIN signal_history : signal_history[i].symbol = s}
    IN  IF idx = {} THEN None
        ELSE signal_history[CHOOSE i \in idx : \A j \in idx : j <= i]

\* C2: signal_history holds at most 200 entries in every state in which the
\* scan loop is suspended, whatever scan cycles, evictions and
\* clear_old_signals calls came before.
C2_HistoryAtMost200 == Len(signal_history) <= 200

\* C2 witness: the history is full and an eviction has taken place
C2_Witness ==
    /\ ~cleared
    /\ Len(AllAccepted) > 200
    /\ Len(signal_history) = 200

\* C3: eviction is strict FIFO: as long as clear_old_signals has not been
\* called, after n accepted signals the history is exactly the last
\* min(n, 200) accepted signals, in acceptance order.
C3_StrictFifo ==
    ~cleared =>
        LET n == Len(AllAccepted)
            k == Min(n, 200)
        IN  signal_history = SubSeq(AllAccepted, n - k + 1, n)

\* C3 witness: two signals have been evicted, one after the other
C3_Witness ==
    /\ ~cleared
    /\ Len(AllAccepted) >= 202
    /\ scanPc = "broadcast"

\* C4: the keys of signal_index are exactly the signal_ids of the signals in
\* signal_history, and get_signal_by_id returns the history's signal for such
\* an id and None for any other id, an evicted one in particular.
C4_IndexMatchesHistory ==
    /\ DOMAIN signal_index = HistoryIds
    /\ \A i \in DOMAIN signal_history :
         GetSignalById(signal_history[i].signal_id) = signal_history[i]
    /\ LET ids == HistoryIds
       IN  \A id \in ((0 - HistoryCap)..MaxSignals) \ ids : GetSignalById(id) = None

\* C4 witness: a signal has been evicted and its id is looked up in vain
C4_Witness ==
    /\ ~cleared
    /\ Len(AllAccepted) > 200
    /\ AllAccepted[1].signal_id \notin DOMAIN signal_index
    /\ GetSignalById(AllAccepted[1].signal_id) = None

\* C5: every value of latest_signals is a signal present in signal_history;
\* hence a symbol whose latest signal is evicted loses its latest_signals
\* entry in the step that evicts it.
C5_LatestInHistory ==
    \A s \in DOMAIN latest_signals :
        /\ latest_signals[s].symbol = s
        /\ \E i \in DOMAIN signal_history : signal_history[i] = latest_signals[s]

\* C5 witness: the evicted signal was the latest one of USDJPY, and the entry
\* of USDJPY is gone
C5_Witness ==
    /\ ~cleared
    /\ Len(AllAccepted) > 200
    /\ AllAccepted[1].symbol = "USDJPY"
    /\ "USDJPY" \notin DOMAIN latest_signals
    /\ "EURUSD" \in DOMAIN latest_signals

\* C6: _scan_pair discards a generated signal for symbol S exactly when
\* latest_signals holds a signal for S generated less than 15 s earlier with
\* the same direction: same direction 10 s apart is discarded, 20 s apart is
\* kept, and the opposite direction is kept whatever the gap.
C6_DedupExact ==
    [][nextId' = nextId + 1 =>
         LET sig == lastCheck'.signal
             S == sig.symbol
             held == S \in DOMAIN latest_signals
             gap == sig.timestamp - latest_signals[S].timestamp
             same == sig.direction = latest_signals[S].direction
         IN  /\ lastCheck'.discarded <=> (held /\ gap < 15 /\ same)
             /\ (held /\ gap = 10 /\ same) => lastCheck'.discarded
             /\ (held /\ gap = 20) => ~lastCheck'.discarded
             /\ (held /\ ~same) => ~lastCheck'.discarded
             /\ \E i \in DOMAIN results' :
                  /\ taskState[i] = "fetching" /\ taskState'[i] = "done"
                  /\ results'[i] = IF lastCheck'.discarded THEN None ELSE sig
    ]_vars

\* C6 witness: a signal generated 10 s after the latest one of its symbol,
\* with the same direction, has just been discarded
C6_Witness ==
    /\ lastCheck.discarded
    /\ lastCheck.signal.symbol \in DOMAIN latest_signals
    /\ lastCheck.signal.timestamp - latest_signals[lastCheck.signal.symbol].timestamp = 10
    /\ lastCheck.signal.direction = latest_signals[lastCheck.signal.symbol].direction

\* C7: for every symbol S, latest_signals[S], when present, is the last signal
\* for S appended to signal_history.
C7_LatestIsLastAccepted ==
    \A s \in DOMAIN latest_signals : latest_signals[s] = LastFor(s)

-----------------------------------------------------------------------------
(* Properties of the functions that only compute                           *)

\* C27: when only_otc and only_open_market are both set, the list the scanner
\* resolves consists of exactly the broker's OTC instruments, up to the cap of
\* a cycle: no open-market instrument, and not the empty list when the broker
\* offers OTC instruments (for IQOptionScanner: those that are open and on the
\* allowlist, if there is one).
C27_OnlyOtcWins ==
    (/\ fnOut.done
     /\ fnIn.fn \in {"_get_pairs_to_scan", "_get_otc_pairs"}
     /\ fnIn.config.only_otc
     /\ fnIn.config.only_open_market
     /\ fnIn.fn = "_get_pairs_to_scan" => fnIn.config.mode = "auto")
    => LET otc == SelectSeq(fnIn.assets,
                            LAMBDA p : /\ p.is_otc
                                       /\ fnIn.fn = "_get_otc_pairs" =>
                                            /\ p.is_active
                                            /\ fnIn.config.symbols # {} =>
                                                   p.symbol \in fnIn.config.symbols)
       IN  \/ fnOut.value = otc
           \/ /\ Len(otc) > MaxPairs
              /\ fnOut.value = SubSeq(otc, 1, MaxPairs)

\* C29: the list of instruments one cycle scans never has more than 30
\* entries, whatever the mode (manual allowlist or automatic), the market
\* filters and the size of the broker's list.
C29_AtMostThirtyPairs ==
    (fnOut.done /\ fnIn.fn \in {"_get_pairs_to_scan", "_get_otc_pairs"})
    => Len(fnOut.value) <= MaxPairs

\* C30: every confidence _calculate_confidence returns lies between 0 and 95,
\* and is at least 55 when the sensitivity is aggressive, for every number of
\* confluences from 0 to 7, every pattern type and a level strength of none
\* or 1 to 5.
C30_ConfidenceWithinBounds ==
    (fnIn.fn = "_calculate_confidence" /\ fnOut.done) =>
        /\ 0 <= fnOut.value
        /\ fnOut.value <= 95
        /\ fnIn.sensitivity = "aggressive" => fnOut.value >= 55

\* the sum of the terms is 115 and the call returned 95
C30_Witness ==
    /\ fnIn.fn = "_calculate_confidence"
    /\ fnIn.confluences = MaxConfluences
    /\ fnIn.pattern_type = "engulfing_bullish"
    /\ fnIn.strength = MaxStrength
    /\ fnOut.done
    /\ fnOut.value = 95

\* C31: for every generated signal and every generation instant, entry_time
\* is later than timestamp and is the first full minute after it (one minute
\* further in aggressive mode), expiry_minutes = max(timeframe, 2), and
\* expiry_time is entry_time plus expiry_minutes minutes.
C31_SignalTimes ==
    (fnIn.fn = "generate_signal" /\ fnOut.done) =>
        LET v == fnOut.value
            boundary == v.entry_time
                          - (IF fnIn.sensitivity = "aggressive" THEN 60 ELSE 0)
        IN  /\ v.timestamp = fnIn.now
            /\ v.entry_time > v.timestamp
            /\ v.entry_time % 60 = 0
            /\ boundary > fnIn.now
            /\ boundary - fnIn.now <= 60
            /\ v.expiry_minutes >= fnIn.timeframe
            /\ v.expiry_minutes >= 2
            /\ v.expiry_minutes \in {fnIn.timeframe, 2}
            /\ v.expiry_time = v.entry_time + v.expiry_minutes * 60

\* a signal generated on a full minute with timeframe 1 in aggressive mode:
\* entry two minutes later, expiry two minutes after the entry
C31_Witness ==
    /\ fnIn.fn = "generate_signal"
    /\ fnIn.now = 60
    /\ fnIn.timeframe = 1
    /\ fnIn.sensitivity = "aggressive"
    /\ fnOut.done
    /\ fnOut.value.entry_time = 180
    /\ fnOut.value.expiry_time = 300

\* C32: when the last candle of the series has its low far below its body
\* (the lower wick is more than three times the body) and the lower wick
\* covers at least 60% of the candle's range, detect_patterns reports a
\* pin_bar for that candle and generate_signal resolves the direction CALL.
C32_LowerWickGivesPinBarAndCall ==
    (/\ fnIn.fn = "detect_patterns"
     /\ fnOut.done
     /\ LET last == fnIn.df[Len(fnIn.df)]
            lower_wick == Min(last.open, last.close) - last.low
            body == IF last.close > last.open THEN last.close - last.open
                    ELSE last.open - last.close
        IN  /\ lower_wick > 3 * body
            /\ lower_wick * 100 >= 60 * (last.high - last.low))
    => /\ \E i \in DOMAIN fnOut.patterns :
             /\ fnOut.patterns[i].pattern_type = "pin_bar"
             /\ fnOut.patterns[i].candle_index = Len(fnIn.df)
       /\ fnOut.value = "CALL"

-----------------------------------------------------------------------------
(* Properties of the session manager and of the clients it hands out       *)

\* C34: every successful candle or instrument fetch of a running scanner on
\* the registered client of its user refreshes the user's entry of
\* session_timeouts: after the fetch the entry holds the current time.
C34_SuccessfulFetchRefreshes ==
    [][(/\ ret'.op \in {"get_candles", "get_user_candles"}
        /\ ret'.message = "fetched"
        /\ ret'.success
        /\ ret'.username \in DOMAIN sessions'
        /\ sessions'[ret'.username] = ret'.client)
       => /\ ret'.username \in DOMAIN session_timeouts'
          /\ session_timeouts'[ret'.username] = sNow']_vars

\* C35: a client that disconnect_user or the reaper has torn down never
\* becomes connected again, whoever still holds a reference to it. Where no
\* connect_user is called, a client is disconnected only after being torn
\* down: no step connects a disconnected client.
C35_TornClientStaysDisconnected ==
    [][\A c \in DOMAIN clients :
          ~clients[c].connected => ~clients'[c].connected]_vars

\* C37: disconnect_user(u) removes from the registry only the client it tore
\* down: when it resumes from client.disconnect() and another client has been
\* registered under u meanwhile, that client's entry is still there after the
\* call.
C37_DisconnectRemovesOnlyItsClient ==
    [][(/\ ret'.op = "disconnect_user"
        /\ ret'.client # 0
        /\ ret'.username \in DOMAIN sessions
        /\ sessions[ret'.username] # ret'.client)
       => /\ ret'.username \in DOMAIN sessions'
          /\ sessions'[ret'.username] = sessions[ret'.username]]_vars

\* C40: the key sets of sessions, session_timeouts and account_types are equal
\* in every reachable state of the manager.
C40_SameKeysInTheThreeMaps ==
    /\ DOMAIN sessions = DOMAIN session_timeouts
    /\ DOMAIN sessions = DOMAIN account_types

-----------------------------------------------------------------------------
(* Properties of the scanners of one user                                  *)

\* C21: for any interleaving of start and stop requests of one user, two
\* overlapping starts included, no two scanner tasks of that user are
\* unfinished and uncancelled at the same time.
C21_OneScanLoopPerUser ==
    Cardinality({i \in DOMAIN scanners :
                    scanners[i].pc \notin {"done", "closed"} /\ ~scanners[i].cancel}) <= 1

\* C22: a start request of a user whose scanner is running is rejected and
\* leaves the running scanner and its task untouched; a registered scanner is
\* replaced only when it is not running.
C22_RunningScannerRejectsStart ==
    [][(resp'.op = "start" /\ scanner_instances # 0)
       => /\ scanners[scanner_instances].is_running
               => /\ resp'.status # 200
                  /\ scanners' = scanners
                  /\ scanner_instances' = scanner_instances
                  /\ scanner_tasks' = scanner_tasks
          /\ scanner_instances' # scanner_instances
               => ~scanners[scanner_instances].is_running]_vars

\* C25: when the loop of a scanner reaches the top of a cycle while the user's
\* session is not connected, the scanner sets is_running to false and its
\* loop ends.
C25_LostSessionEndsLoop ==
    [][\A i \in DOMAIN scanners :
          (/\ scanners[i].pc = "sleep"
           /\ scanners'[i].pc # "sleep"
           /\ ~scanners[i].cancel
           /\ session # "up")
          => /\ scanners'[i].pc = "done"
             /\ ~scanners'[i].is_running]_vars

\* C26: a start request that finds the user without a connected session is
\* refused, and a scanner that is started while the user has no connected
\* session runs no loop iteration, issues no fetch and is left with
\* is_running false.
C26_NoSessionNoScan ==
    [][/\ (resp'.op = "start" /\ resp'.reconnected) => resp'.status # 200
       /\ \A i \in DOMAIN scanners :
             (/\ scanners[i].pc = "created"
              /\ scanners'[i].pc # "created"
              /\ session # "up")
             => /\ scanners'[i].pc = "done"
                /\ ~scanners'[i].is_running]_vars

\* C28: a scanner that resolves an empty instrument list, and was not told to
\* stop, does not terminate: it sleeps a backoff (and resolves the list again
\* in its next cycle).
C28_EmptyListKeepsScanning ==
    [][resp'.op = "empty"
       => \A i \in DOMAIN scanners :
             (/\ scanners[i].pc = "pairs"
              /\ scanners'[i].pc # "pairs"
              /\ scanners[i].is_running)
             => /\ scanners'[i].pc = "sleep"
                /\ scanners'[i].is_running]_vars

\* C38: whenever the scanner registered in _scanner_instances is a running
\* AutoScanner, _scanner_tasks holds the task that executes its loop; the
\* done-callback of a replaced task does not remove the entry of the task
\* that replaced it.
C38_RunningScannerHasItsTask ==
    (/\ lKind = "auto"
     /\ scanner_instances # 0
     /\ scanners[scanner_instances].is_running)
    => scanner_tasks = scanner_instances

\* C39: a stop request handled after the task of the registered scanner was
\* created and before that task ran its first step is not lost: it cancels the
\* task, so that the loop never sets is_running and never starts a pass.
C39_EarlyStopNotLost ==
    [][(/\ resp'.op = "stop"
        /\ scanner_instances # 0
        /\ scanners[scanner_instances].pc = "created")
       => scanners'[scanner_instances].cancel]_vars

-----------------------------------------------------------------------------
(* Properties of the AutoScanner loop                                      *)

\* C33: every signal that passed deduplication is published once, after it
\* was appended to the history, also when publishing an earlier signal of the
\* cycle failed: a signal that waits for its turn leaves the cycle's list only
\* by being appended and handed to broadcast_signal.
C33_EveryAcceptedSignalPublished ==
    [][(scanPc = "broadcast" /\ new_signals # <<>>)
       => \/ new_signals' = new_signals
          \/ /\ new_signals' = Tail(new_signals)
             /\ scanPc' = "broadcast"
             /\ signal_history' # <<>>
             /\ signal_history'[Len(signal_history')] = Head(new_signals)]_vars

\* C36: signal_history never holds two signals that are consecutive among the
\* entries of one symbol, have the same direction and were generated less than
\* 15 seconds apart, also when one cycle scans the same symbol twice.
C36_NoCloseRepeatsInHistory ==
    \A i, j \in DOMAIN signal_history :
        (/\ i < j
         /\ signal_history[i].symbol = signal_history[j].symbol
         /\ \A k \in (i + 1)..(j - 1) :
                signal_history[k].symbol # signal_history[i].symbol
         /\ signal_history[i].direction = signal_history[j].direction)
        => signal_history[j].timestamp - signal_history[i].timestamp >= DedupWindow

\* C24: an instrument whose scan fails (fetch error, too few candles,
\* generator exception) yields no signal, does not end the loop and does not
\* keep the signals of the other instruments of the cycle from being
\* recorded: when gather returns, every signal among the results is recorded
\* or waits for its turn, and nothing else does. An exception at loop level
\* is followed by a sleep (the pause of the cycle or the backoff of 5 s), and
\* the loop ends only after the scanner was stopped.
C24_FailureConfinedToInstrument ==
    [][/\ (scanPc = "gather" /\ scanPc' # "gather")
          => /\ scanPc' \in {"broadcast", "sleep"}
             /\ \A i \in DOMAIN results :
                   results[i] # None
                   => \/ \E j \in DOMAIN signal_history' : signal_history'[j] = results[i]
                      \/ \E j \in DOMAIN new_signals' : new_signals'[j] = results[i]
             /\ \A j \in DOMAIN new_signals' :
                   /\ new_signals'[j] # None
                   /\ \E i \in DOMAIN results : results[i] = new_signals'[j]
             /\ (\A i \in DOMAIN results : results[i] = None)
                   => signal_history' = signal_history
       /\ (scanPc = "broadcast" /\ scanPc' # "broadcast")
          => /\ scanPc' = "sleep"
             /\ wakeAt' \in {now + CycleSleep(sensitivity), now + ErrorBackoff}
       /\ scanPc' = "stopped" => ~is_running]_vars

\* of the two instruments of the first cycle one failed; the signal of the
\* other one is recorded
C24_Witness ==
    /\ scanPc = "broadcast"
    /\ nextId = 2
    /\ Len(signal_history) = 1
    /\ Len(accepted) = 1

====
